---------------------------- MODULE Spec2Model ----------------------------
(***************************************************************************)
(* Face-alignment gate and capture controller of IdentiFind.               *)
(*                                                                         *)
(* The repository holds several implementations of the controller:         *)
(*   "ref"      src/src/components/Camera.tsx, lines 830-1478              *)
(*              (faceStableTimeRef, 3000 ms, deferred performSingleCapture)*)
(*   "interval" src/src/components/Camera.tsx, lines 1-829                 *)
(*              (stability-check interval + countdown interval)            *)
(*   "hook"     src/src/components/FaceApiLoader.tsx, useFaceDetection     *)
(*              (stableTimeRef + countdown, centre-point region test)      *)
(* The variable `variant` says which one is mounted; each has its own      *)
(* specification (SpecRef, SpecInterval, SpecHook), and SpecFilter runs    *)
(* the per-face validity filter on its own.  Every handler is one action.  *)
(* React state read inside a callback that was handed to the detector once *)
(* is read from the closure of the render that created it (the Handler...  *)
(* definitions), React state read by a click handler is read from the      *)
(* latest render.  Times are milliseconds: the detector delivers frames at *)
(* multiples of FrameStep, timer callbacks run at the instant they are     *)
(* due, and clicks, frames and due callbacks of one instant run in any     *)
(* order.  A specification covers one camera session, from the end of      *)
(* initialisation to after stopCamera / stop.                              *)
(*                                                                         *)
(* SpecCamera takes the sessions of the interval variant and of the hook   *)
(* together.  The processing queues are modelled apart from the gates:     *)
(* SpecPage is the queue of src/src/app/page.tsx, SpecUseQueue the one of  *)
(* useQueue (FaceApiLoader.tsx 521-788).  There a render copies the queue  *)
(* state to `rendered`, the state every callback of that render reads, and *)
(* functional updaters act on `queue`; handlers, responses and timers may  *)
(* run between a render and its passive effect.                            *)
(***************************************************************************)
EXTENDS Integers, Sequences, FiniteSets, TLC

VARIABLES
    variant,            \* which controller implementation is mounted
    now,                \* Date.now()
    session,            \* "active" | "stopped" (isActive / stopCamera)
    detector,           \* FaceDetectionManager loop: "running" | "draining" | "stopped"
    isCapturing,        \* React state isCapturing
    error,              \* React state error (user-visible status string)
    faceStableTimeRef,  \* ref variant: faceStableTimeRef.current
    timers,             \* pending setTimeout / setInterval callbacks
    emitted,            \* number of onImageCaptured / onCapture calls so far
    attempts,           \* number of capture actions started so far
    clicks,             \* manual-capture clicks so far
    alignedSince,       \* interval variant: time of the first frame of the current unbroken run of aligned frames
    log,                \* the branch the last handler took (its console message)
    faceInRegion,       \* interval variant: React state faceInRegion
    faceStableTime,     \* interval variant: React state faceStableTime
    countdown,          \* interval variant and hook: React state countdown
    stableTimeRef,      \* hook: stableTimeRef.current
    faceStable,         \* hook: React state faceStable
    faceDetected,       \* hook: React state faceDetected
    isDetecting,        \* hook: React state isDetecting
    everInside,         \* hook: some frame so far held a face whose box was fully inside the region
    frame,              \* SpecFilter: the detection results under evaluation
    alignment,          \* SpecFilter: what the filter of a variant made of them
    manager,            \* SpecManager: the FaceDetectionManager object (its fields and canvases)
    videoElement,       \* SpecManager: the <video> element and the browser's canvas services
    capturedImage,      \* SpecManager: what the last capture call returned
    delivered,          \* SpecManager: number of onResultsCallback calls so far
    queue,              \* React state queue: items and currentProcessingId, all updates applied
    rendered,           \* the queue of the last render (what callbacks of that render read)
    renderPending,      \* a setQueue has been called since the last render
    effectPending,      \* the last render's effect has not run yet
    requests,           \* ids of the items whose process-image request is in flight
    completedResults,   \* page: React state completedResults (ids, newest first)
    sent,               \* number of process-image requests sent so far, per item id
    created,            \* number of items created so far (generateId calls)
    isProcessingRef,    \* useQueue: isProcessingRef.current
    processingTimeoutRef, \* useQueue: processingTimeoutRef.current (the item its timeout belongs to)
    processingTimeouts, \* useQueue: the pending processing timeouts (item id, React work done since it was set)
    autoProcessTimer,   \* useQueue: the pending 100 ms timeout of the auto-process effect
    timedOut            \* useQueue: items whose processing timeout has fired

filterVars == <<frame, alignment>>

managerVars == <<manager, videoElement, capturedImage, delivered>>

queueVars == <<queue, rendered, renderPending, effectPending, requests, completedResults,
               sent, created, isProcessingRef, processingTimeoutRef, processingTimeouts,
               autoProcessTimer, timedOut>>

intervalVars == <<faceInRegion, faceStableTime>>

hookVars == <<stableTimeRef, faceStable, faceDetected, isDetecting, everInside>>

vars == <<variant, now, session, detector, isCapturing, error, faceStableTimeRef,
          timers, emitted, attempts, clicks, alignedSince, log,
          faceInRegion, faceStableTime, countdown,
          stableTimeRef, faceStable, faceDetected, isDetecting, everInside,
          frame, alignment, manager, videoElement, capturedImage, delivered,
          queue, rendered, renderPending, effectPending, requests, completedResults,
          sent, created, isProcessingRef, processingTimeoutRef, processingTimeouts,
          autoProcessTimer, timedOut>>

Null == "null"

\* the value of `alignment` before a filter has run
\* controller specifications: the manager, its video and its captures are not modelled
NoManager == [kind |-> "none"]

NoVideo == [readyState |-> 0]

\* no capture call has returned yet
NoImage == [dataURL |-> Null, pixels |-> {}]

\* the queue of a freshly mounted component: useState({ items: [], currentProcessingId: null })
EmptyQueue == [items |-> <<>>, currentProcessingId |-> 0]

\* the number of images captured or uploaded in one session
MaxItems == 4

\* the item ids a session can create (generateId)
ItemIds == 1..MaxItems

\* gate and manager specifications: no queue is mounted
NoQueueMounted ==
    /\ queue = EmptyQueue
    /\ rendered = EmptyQueue
    /\ renderPending = FALSE
    /\ effectPending = FALSE
    /\ requests = {}
    /\ completedResults = <<>>
    /\ sent = [id \in ItemIds |-> 0]
    /\ created = 0
    /\ isProcessingRef = FALSE
    /\ processingTimeoutRef = 0
    /\ processingTimeouts = {}
    /\ autoProcessTimer = <<>>
    /\ timedOut = {}

NotEvaluated == [by |-> "none", faceInTargetRegion |-> FALSE, validFaces |-> 0]

Min(a, b) == IF a <= b THEN a ELSE b

Abs(a) == IF a < 0 THEN -a ELSE a

\* A nullable timestamp (number | null): <<>> is null, <<t>> is the number t.
NoTime == <<>>

At(t) == <<t>>

TimeOf(v) == v[1]

\* JavaScript truthiness of a nullable number: null and 0 are falsy.
Truthy(v) == v # NoTime /\ TimeOf(v) # 0

----------------------------------------------------------------------------
(* Bounds of the model *)

\* the clock of the ref variant stops here
MaxTime == 7000
\* the clock of the interval variant stops here
MaxTimeInterval == 5500
\* the clock of the hook stops here
MaxTimeHook == 11500
\* the detector delivers frames at multiples of this many milliseconds
FrameStep == 500
\* faces per detection frame
MaxFaces == 2
\* manual-capture clicks per run
\* SpecManager: onResultsCallback calls and capture calls per run
MaxDelivered == 2

MaxAttempts == 2

\* SpecScenario: the spacing of the frames it feeds, and its end
ScenarioFrameStep == 33

MaxTimeScenario == 8500

MaxClicks == 2

----------------------------------------------------------------------------
(* Program constants *)

\* ref variant: setTimeout(performSingleCapture, 100)
CAPTURE_START_DELAY == 100
\* setTimeout(() => setIsCapturing(false), 1000)
CAPTURE_RESET_DELAY == 1000
\* a stability threshold shorter than the time a capture is outstanding
STABILITY_MS_short == CAPTURE_RESET_DELAY \div 2
\* ref variant: "if (elapsed >= 3000)"
STABILITY_MS == 3000
\* interval variant: config.stabilityThreshold
stabilityThreshold_interval == 2000
\* interval variant: config.captureDelay
captureDelay_interval == 2000
\* interval variant: period of the stability-check interval
STABILITY_CHECK_MS == 100
\* period of a countdown interval
COUNTDOWN_MS == 1000
\* hook: stabilityThreshold = 5000
stabilityThreshold_hook == 5000
\* hook: captureDelay = 5000
captureDelay_hook == 5000
\* hook: minDetectionConfidence = 0.7, in percent
minDetectionConfidence_hook == 70
\* config.minDetectionConfidence = 0.5, in percent
minDetectionConfidence == 50
maxYawAngle == 25
maxPitchAngle == 20


----------------------------------------------------------------------------
(* Target region and the per-face validity filter.                          *)
(* Bounding boxes are in whole pixels, confidences in percent, angles in    *)
(* whole degrees.  The region's y and height are not whole pixels (67.2,    *)
(* 345.6), so the region is kept in tenths of a pixel and a pixel           *)
(* coordinate is multiplied by 10 before it is compared with it.            *)

\* createTargetRegion(640, 480), in tenths of a pixel
createTargetRegion(canvasWidth, canvasHeight) ==
    LET baseWidth == 640
        baseHeight == 480
        minDimension == Min(baseWidth, baseHeight)
        regionSize == minDimension * 6              \* minDimension * 0.6
        regionWidth == regionSize
        regionHeight == (regionSize * 12) \div 10   \* regionSize * 1.2
    IN  [x |-> (baseWidth * 10 - regionWidth) \div 2,
         y |-> (baseHeight * 10 - regionHeight) \div 2,
         width |-> regionWidth,
         height |-> regionHeight]

targetRegion == createTargetRegion(640, 480)

\* the overlay canvas of the interval variant: <canvas width={640} height={480}>
overlayCanvasSize == [width |-> 640, height |-> 480]

\* REQUIREMENT 1: all four edges of the bounding box inside the region
faceFullyInRegion(bbox, region) ==
    LET faceLeft == bbox.x * 10
        faceRight == (bbox.x + bbox.width) * 10
        faceTop == bbox.y * 10
        faceBottom == (bbox.y + bbox.height) * 10
        targetLeft == region.x
        targetRight == region.x + region.width
        targetTop == region.y
        targetBottom == region.y + region.height
    IN  /\ faceLeft >= targetLeft
        /\ faceRight <= targetRight
        /\ faceTop >= targetTop
        /\ faceBottom <= targetBottom

\* REQUIREMENT 3: detection.confidence >= config.minDetectionConfidence
hasGoodDetection(detection) == detection.confidence >= minDetectionConfidence

\* REQUIREMENT 4: sizeRatio >= 0.08 && sizeRatio <= 0.8, where sizeRatio is
\* faceArea / regionArea; faceArea is in px^2 and regionArea in 1/100 px^2,
\* and both comparisons are cross-multiplied
isGoodSize(bbox, region) ==
    LET faceArea == bbox.width * bbox.height
        regionArea == region.width * region.height
    IN  /\ faceArea * 2500 >= 2 * regionArea
        /\ faceArea * 1000 <= 8 * regionArea

\* the angle test with the pitch forgotten
isGoodAngle_yawOnly(detection) ==
    Abs(detection.faceAngle.yaw) <= maxYawAngle

\* REQUIREMENT 5: |yaw| <= maxYawAngle && |pitch| <= maxPitchAngle
isGoodAngle(detection) ==
    /\ Abs(detection.faceAngle.yaw) <= maxYawAngle
    /\ Abs(detection.faceAngle.pitch) <= maxPitchAngle

\* ref variant: results.filter(...) of handleFaceDetectionResults
validFacesInRegion_ref(results) ==
    LET valid(detection) ==
            /\ faceFullyInRegion(detection.bbox, targetRegion)
            /\ detection.isFacingCamera
            /\ hasGoodDetection(detection)
            /\ isGoodSize(detection.bbox, targetRegion)
            /\ isGoodAngle(detection)
    IN  SelectSeq(results, valid)

\* interval variant: the region is first scaled to the overlay canvas
\* (scaleX = canvas.width / 640, scaleY = canvas.height / 480)
scaledRegion(canvas) ==
    [x |-> (targetRegion.x * canvas.width) \div 640,
     y |-> (targetRegion.y * canvas.height) \div 480,
     width |-> (targetRegion.width * canvas.width) \div 640,
     height |-> (targetRegion.height * canvas.height) \div 480]

\* interval variant: results.filter(...) of handleFaceDetectionResults
validFacesInRegion_interval(results) ==
    LET region == scaledRegion(overlayCanvasSize)
        valid(detection) ==
            /\ faceFullyInRegion(detection.bbox, region)
            /\ detection.isFacingCamera
            /\ hasGoodDetection(detection)
            /\ isGoodSize(detection.bbox, region)
            /\ isGoodAngle(detection)
    IN  SelectSeq(results, valid)

----------------------------------------------------------------------------
(* Detection frames the detector may deliver *)

Face(x, y, w, h, conf, facing, yaw, pitch) ==
    [bbox |-> [x |-> x, y |-> y, width |-> w, height |-> h],
     confidence |-> conf, isFacingCamera |-> facing,
     faceAngle |-> [yaw |-> yaw, pitch |-> pitch]]

\* a frontal face well inside the region
GoodFace == Face(200, 100, 200, 250, 90, TRUE, 0, 0)
\* the same face shifted left: its left edge is outside, its centre inside
PartialFace == Face(150, 100, 200, 250, 90, TRUE, 0, 0)
\* inside the region but turned away
AwayFace == Face(200, 100, 200, 250, 90, FALSE, 40, 0)

\* a small frontal face in the middle of the picture
SmallFace == Face(250, 170, 100, 120, 90, TRUE, 0, 0)
\* a face in the corner of the picture
FarFace == Face(20, 20, 100, 120, 90, TRUE, 0, 0)

\* the frames the controllers are driven with
SceneFrames ==
    { <<>>, <<GoodFace>>, <<PartialFace>>, <<AwayFace>>, <<PartialFace, GoodFace>>,
      <<SmallFace>>, <<FarFace>> }


----------------------------------------------------------------------------
(* The video element at the moment of a capture, and the capture action *)

Video(w, h, ready, ctx, dataURL) ==
    [videoWidth |-> w, videoHeight |-> h, readyState |-> ready, paused |-> FALSE,
     canvasCtx |-> TRUE, detectionCtx |-> ctx, cropCtx |-> TRUE,
     throws |-> FALSE, dataURL |-> dataURL]

\* the video states the controllers are driven with: playing, or not ready
VideoStates ==
    { Video(1280, 720, 4, TRUE, "data:image/jpeg"),
      Video(1280, 720, 1, TRUE, "data:image/jpeg") }

\* a playing 1280 x 720 camera stream
Playing == Video(1280, 720, 4, TRUE, "data:image/jpeg")

\* "scaledRegion ... > this.detectionCanvas.width": scaledRegion is
\* region * canvas / 640 (480), in tenths of a pixel, compared after
\* multiplying both sides by 640 (480)
regionOutOfBounds_xOnly(region, canvasWidth, canvasHeight) ==
    \/ region.x * canvasWidth < 0
    \/ (region.x + region.width) * canvasWidth > canvasWidth * 10 * 640

regionOutOfBounds(region, canvasWidth, canvasHeight) ==
    \/ region.x * canvasWidth < 0
    \/ region.y * canvasHeight < 0
    \/ (region.x + region.width) * canvasWidth > canvasWidth * 10 * 640
    \/ (region.y + region.height) * canvasHeight > canvasHeight * 10 * 480

\* FaceDetectionManager.captureTargetRegion: the data URL, or Null.
\* this.videoElement is assigned by the first statement of initialize and
\* never cleared, so its null test never succeeds on an initialised manager;
\* video.throws is a drawImage / toDataURL call that throws (the catch block).
captureTargetRegion(video, region) ==
    IF video.videoWidth = 0 \/ video.videoHeight = 0 THEN Null
    ELSE IF video.readyState < 2 THEN Null
    ELSE IF ~video.detectionCtx THEN Null
    ELSE IF video.throws THEN Null
    ELSE IF ~video.cropCtx THEN Null
    ELSE IF regionOutOfBounds(region, video.videoWidth, video.videoHeight) THEN Null
    ELSE IF video.dataURL = "" \/ video.dataURL = "data:," THEN Null
    ELSE video.dataURL

----------------------------------------------------------------------------
(* Timers: the pending setTimeout / setInterval callbacks, in creation order *)

TimerIds == { timers[i].id : i \in DOMAIN timers }

FreshId == CHOOSE i \in 1..(Len(timers) + 1) : i \notin TimerIds

Timer(kind, due, count) == [id |-> FreshId, kind |-> kind, due |-> due, count |-> count]

\* the callback the event loop runs next: the earliest due one, oldest first
IsNextDue(i) ==
    /\ i \in DOMAIN timers
    /\ timers[i].due <= now
    /\ \A j \in DOMAIN timers :
          timers[j].due <= now =>
             \/ timers[i].due < timers[j].due
             \/ (timers[i].due = timers[j].due /\ i <= j)

NoTimerDue == \A i \in DOMAIN timers : timers[i].due > now

Remove(seq, i) == SubSeq(seq, 1, i - 1) \o SubSeq(seq, i + 1, Len(seq))

\* the spacing of detection frames: FrameStep, or ScenarioFrameStep when the
\* ref variant is fed the fixed frame of SpecScenario
FramePeriod == IF variant = "ref" /\ frame # <<>> THEN ScenarioFrameStep ELSE FrameStep

\* the instant of the next detection frame
NextFrameTime == ((now \div FramePeriod) + 1) * FramePeriod

\* the instant of the next timer callback, if one is pending before `limit`
EarliestDue(limit) ==
    LET dues == { timers[i].due : i \in DOMAIN timers } \cup {limit}
    IN  CHOOSE d \in dues : \A e \in dues : d <= e

\* the end of the run of the mounted variant
Horizon ==
    CASE variant = "ref" -> IF frame # <<>> THEN MaxTimeScenario ELSE MaxTime
      [] variant = "interval" -> MaxTimeInterval
      [] variant = "hook" -> MaxTimeHook

\* time passes, up to the next frame or the next timer callback; a callback
\* that is due runs before the clock moves on
Advance ==
    /\ NoTimerDue
    /\ now' = EarliestDue(NextFrameTime)
    /\ now' <= Horizon
    /\ log' = [op |-> "tick", msg |-> "tick"]
    /\ UNCHANGED <<intervalVars, hookVars, countdown, filterVars, variant, queueVars, managerVars, session, detector, isCapturing, error, faceStableTimeRef,
                   timers, emitted, attempts, clicks, alignedSince>>


----------------------------------------------------------------------------
(* ref variant: src/src/components/Camera.tsx, lines 830-1478 *)

\* faceDetectionManagerRef.current: set by initializeCamera, nulled by stopCamera
faceDetectionManagerRef == IF session = "active" THEN "manager" ELSE Null

\* overlayCanvasRef.current: the canvas exists while the component renders it
overlayCanvasRef == IF session = "active" THEN "canvas" ELSE Null

\* isCapturing as handleFaceDetectionResults reads it: the callback handed to
\* FaceDetectionManager.initialize is the one of the render that created
\* initializeCamera, in which isCapturing is false
HandlerIsCapturing_ref == FALSE

\* the ghost run of aligned frames, after a frame that was evaluated
AlignedRun(faceInTargetRegion) ==
    IF faceInTargetRegion
    THEN (IF alignedSince = NoTime THEN At(now) ELSE alignedSince)
    ELSE NoTime

\* handleFaceDetectionResults(results), called by the detection loop
handleFaceDetectionResults_ref(results) ==
    /\ variant = "ref"
    /\ detector \in {"running", "draining"}
    /\ now % FramePeriod = 0
    /\ detector' = IF detector = "draining" THEN "stopped" ELSE detector
    /\ IF HandlerIsCapturing_ref
       THEN \* "BLOCKING - Already capturing": only the overlay is drawn
            /\ log' = [op |-> "frame", msg |-> "blocked"]
            /\ UNCHANGED <<isCapturing, faceStableTimeRef, timers, attempts, alignedSince>>
       ELSE IF overlayCanvasRef = Null
       THEN /\ log' = [op |-> "frame", msg |-> "no overlay"]
            /\ UNCHANGED <<isCapturing, faceStableTimeRef, timers, attempts, alignedSince>>
       ELSE LET faceInTargetRegion == Len(validFacesInRegion_ref(results)) > 0
            IN  /\ UNCHANGED alignedSince
                /\ IF faceInTargetRegion /\ ~HandlerIsCapturing_ref
                   THEN IF ~Truthy(faceStableTimeRef)
                        THEN /\ faceStableTimeRef' = At(now)
                             /\ log' = [op |-> "frame", msg |-> "new timer"]
                             /\ UNCHANGED <<isCapturing, timers, attempts>>
                        ELSE LET elapsed == now - TimeOf(faceStableTimeRef)
                             IN  IF elapsed >= STABILITY_MS /\ ~HandlerIsCapturing_ref
                                 THEN /\ isCapturing' = TRUE
                                      /\ faceStableTimeRef' = NoTime
                                      /\ timers' = Append(timers,
                                            Timer("performSingleCapture",
                                                  now + CAPTURE_START_DELAY, 0))
                                      /\ attempts' = attempts + 1
                                      /\ log' = [op |-> "frame", msg |-> "capturing now"]
                                 ELSE /\ log' = [op |-> "frame", msg |-> "continuing"]
                                      /\ UNCHANGED <<isCapturing, faceStableTimeRef,
                                                     timers, attempts>>
                   ELSE IF Truthy(faceStableTimeRef) /\ ~HandlerIsCapturing_ref
                        THEN /\ faceStableTimeRef' = NoTime
                             /\ log' = [op |-> "frame", msg |-> "alignment lost"]
                             /\ UNCHANGED <<isCapturing, timers, attempts>>
                        ELSE /\ log' = [op |-> "frame", msg |-> "no face"]
                             /\ UNCHANGED <<isCapturing, faceStableTimeRef, timers, attempts>>
    /\ UNCHANGED <<intervalVars, hookVars, countdown, filterVars, variant, queueVars, managerVars, now, session, error, emitted, clicks>>

\* performSingleCapture, run by its 100 ms timeout
performSingleCapture(video) ==
    \E i \in DOMAIN timers :
        /\ IsNextDue(i)
        /\ timers[i].kind = "performSingleCapture"
        /\ LET imageData == IF faceDetectionManagerRef = Null THEN Null
                            ELSE captureTargetRegion(video, targetRegion)
               rest == Remove(timers, i)
           IN  /\ IF imageData # Null
                  THEN /\ emitted' = emitted + 1
                       /\ log' = [op |-> "performSingleCapture", msg |-> "captured"]
                       /\ UNCHANGED error
                  ELSE /\ error' = "Failed to capture image"
                       /\ log' = [op |-> "performSingleCapture", msg |-> "error"]
                       /\ UNCHANGED emitted
               \* finally: setTimeout(() => setIsCapturing(false), 1000)
               /\ timers' = Append(rest,
                     [id |-> timers[i].id, kind |-> "resetCapturing",
                      due |-> now + CAPTURE_RESET_DELAY, count |-> 0])
        /\ UNCHANGED <<intervalVars, hookVars, countdown, filterVars, variant, queueVars, managerVars, now, session, detector, isCapturing, faceStableTimeRef,
                       attempts, clicks, alignedSince>>

\* the timeout running without its setIsCapturing(false)
resetCapturing_guardKept ==
    \E i \in DOMAIN timers :
        /\ variant = "ref"
        /\ IsNextDue(i)
        /\ timers[i].kind = "resetCapturing"
        /\ isCapturing' = isCapturing
        /\ timers' = Remove(timers, i)
        /\ log' = [op |-> "resetCapturing", msg |-> "ready again"]
        /\ UNCHANGED <<intervalVars, hookVars, countdown, filterVars, variant, queueVars, managerVars, now, session, detector, error, faceStableTimeRef,
                       emitted, attempts, clicks, alignedSince>>

\* the "quick reset" timeout of a capture: setIsCapturing(false)
resetCapturing_ref ==
    \E i \in DOMAIN timers :
        /\ variant = "ref"
        /\ IsNextDue(i)
        /\ timers[i].kind = "resetCapturing"
        /\ isCapturing' = FALSE
        /\ timers' = Remove(timers, i)
        /\ log' = [op |-> "resetCapturing", msg |-> "ready again"]
        /\ UNCHANGED <<intervalVars, hookVars, countdown, filterVars, variant, queueVars, managerVars, now, session, detector, error, faceStableTimeRef,
                       emitted, attempts, clicks, alignedSince>>

\* the guard without its re-entrancy part
captureImageBlocked_never == FALSE

\* the guard with its condition inverted
captureImageBlocked_whenIdle == ~isCapturing

\* the re-entrancy part of captureImage's guard: "if (isCapturing) ... return"
captureImageBlocked_ref == isCapturing

\* captureImage, the Manual Capture button's handler
captureImage_ref(video) ==
    /\ variant = "ref"
    /\ session = "active"
    /\ clicks < MaxClicks
    /\ clicks' = clicks + 1
    /\ IF captureImageBlocked_ref
       THEN /\ log' = [op |-> "captureImage", msg |-> "blocked"]
            /\ UNCHANGED <<isCapturing, error, faceStableTimeRef, timers, emitted, attempts>>
       ELSE IF faceDetectionManagerRef = Null
       THEN /\ error' = "Face detection not ready"
            /\ log' = [op |-> "captureImage", msg |-> "not ready"]
            /\ UNCHANGED <<isCapturing, faceStableTimeRef, timers, emitted, attempts>>
       ELSE LET imageData ==
                    IF video.readyState < 2 THEN Null
                    ELSE IF video.videoWidth = 0 \/ video.videoHeight = 0 THEN Null
                    ELSE captureTargetRegion(video, targetRegion)
            IN  /\ isCapturing' = TRUE
                /\ faceStableTimeRef' = NoTime
                /\ attempts' = attempts + 1
                /\ IF imageData # Null
                   THEN /\ emitted' = emitted + 1
                        /\ log' = [op |-> "captureImage", msg |-> "captured"]
                        /\ UNCHANGED error
                   ELSE /\ error' = "Capture failed"
                        /\ log' = [op |-> "captureImage", msg |-> "error"]
                        /\ UNCHANGED emitted
                /\ timers' = Append(timers,
                      Timer("resetCapturing", now + CAPTURE_RESET_DELAY, 0))
    /\ UNCHANGED <<intervalVars, hookVars, countdown, filterVars, variant, queueVars, managerVars, now, session, detector, alignedSince>>

\* stopCamera, run by the effect when isActive becomes false.  A detection
\* whose await is pending when the manager is stopped still calls back once.
stopCamera_ref(inFlight) ==
    /\ variant = "ref"
    /\ session = "active"
    /\ session' = "stopped"
    /\ detector' = IF inFlight THEN "draining" ELSE "stopped"
    /\ faceStableTimeRef' = NoTime
    /\ isCapturing' = FALSE
    /\ alignedSince' = NoTime
    /\ log' = [op |-> "stopCamera", msg |-> "stopped"]
    /\ UNCHANGED <<intervalVars, hookVars, countdown, filterVars, variant, queueVars, managerVars, now, error, timers, emitted, attempts, clicks>>

InitRef ==
    /\ variant = "ref"
    /\ manager = NoManager
    /\ videoElement = NoVideo
    /\ capturedImage = NoImage
    /\ delivered = 0
    /\ NoQueueMounted
    /\ now = FrameStep
    /\ session = "active"
    /\ detector = "running"
    /\ isCapturing = FALSE
    /\ error = Null
    /\ faceStableTimeRef = NoTime
    /\ timers = <<>>
    /\ emitted = 0
    /\ attempts = 0
    /\ clicks = 0
    /\ alignedSince = NoTime
    /\ log = [op |-> "initializeCamera", msg |-> "initialized"]
    /\ faceInRegion = FALSE
    /\ faceStableTime = NoTime
    /\ countdown = NoTime
    /\ stableTimeRef = NoTime
    /\ faceStable = FALSE
    /\ faceDetected = FALSE
    /\ isDetecting = FALSE
    /\ everInside = FALSE
    /\ frame = <<>>
    /\ alignment = NotEvaluated

NextRef ==
    \/ Advance
    \/ \E results \in SceneFrames : handleFaceDetectionResults_ref(results)
    \/ \E video \in VideoStates : performSingleCapture(video)
    \/ resetCapturing_ref
    \/ \E video \in VideoStates : captureImage_ref(video)
    \/ \E inFlight \in BOOLEAN : stopCamera_ref(inFlight)

SpecRef == InitRef /\ [][NextRef]_vars

\* The ref variant with the event loop's guarantees: the clock keeps moving
\* and a timeout that is due is run.  Frames stop at the end of the run;
\* the clock then still moves on to each pending timeout.
AdvancePastHorizon ==
    /\ variant = "ref"
    /\ timers # <<>>
    /\ NoTimerDue
    /\ EarliestDue(NextFrameTime) > Horizon
    /\ now' = EarliestDue(timers[1].due)
    /\ log' = [op |-> "tick", msg |-> "tick"]
    /\ UNCHANGED <<intervalVars, hookVars, countdown, filterVars, variant, queueVars, managerVars,
                   session, detector, isCapturing, error, faceStableTimeRef,
                   timers, emitted, attempts, clicks, alignedSince>>

NextRefLive ==
    \/ NextRef
    \/ AdvancePastHorizon

SpecRefLive ==
    /\ InitRef
    /\ [][NextRefLive]_vars
    /\ WF_vars(Advance)
    /\ WF_vars(AdvancePastHorizon)
    /\ WF_vars(\E video \in VideoStates : performSingleCapture(video))
    /\ WF_vars(resetCapturing_ref)

----------------------------------------------------------------------------
(* The ref variant fed a fixed scenario: one frame every ScenarioFrameStep ms, *)
(* the first at time ScenarioFrameStep, each holding one valid face; each      *)
(* frame is evaluated once, at its instant; no click, no stop.                 *)

\* the clock moves on once the frame of the current instant has been evaluated
AdvanceScenario ==
    /\ frame # <<>>
    /\ (now % FramePeriod = 0) => log.op \notin {"tick", "initializeCamera"}
    /\ Advance

\* the detector delivers the frame of the current instant
feedFrame ==
    /\ log.op \in {"tick", "initializeCamera"}
    /\ handleFaceDetectionResults_ref(frame)

InitScenario ==
    /\ variant = "ref"
    /\ frame = <<GoodFace>>
    /\ alignment = NotEvaluated
    /\ manager = NoManager
    /\ videoElement = NoVideo
    /\ capturedImage = NoImage
    /\ delivered = 0
    /\ NoQueueMounted
    /\ now = ScenarioFrameStep
    /\ session = "active"
    /\ detector = "running"
    /\ isCapturing = FALSE
    /\ error = Null
    /\ faceStableTimeRef = NoTime
    /\ timers = <<>>
    /\ emitted = 0
    /\ attempts = 0
    /\ clicks = 0
    /\ alignedSince = NoTime
    /\ log = [op |-> "initializeCamera", msg |-> "initialized"]
    /\ faceInRegion = FALSE
    /\ faceStableTime = NoTime
    /\ countdown = NoTime
    /\ stableTimeRef = NoTime
    /\ faceStable = FALSE
    /\ faceDetected = FALSE
    /\ isDetecting = FALSE
    /\ everInside = FALSE

NextScenario ==
    \/ AdvanceScenario
    \/ feedFrame
    \/ performSingleCapture(Playing)
    \/ resetCapturing_ref

SpecScenario == InitScenario /\ [][NextScenario]_vars

----------------------------------------------------------------------------
(* interval variant: src/src/components/Camera.tsx, lines 1-829 *)

\* the pending timers without those of one kind (clearInterval / clearTimeout)
Without(ts, kind) ==
    LET keep(t) == t.kind # kind
    IN  SelectSeq(ts, keep)

HasTimer(kind) == \E i \in DOMAIN timers : timers[i].kind = kind

\* stabilityCheckRef.current: the id of the running stability-check interval
stabilityCheckRef == IF HasTimer("stabilityCheck") THEN "interval" ELSE Null

\* countdownIntervalRef.current: the id of the running countdown interval
countdownIntervalRef == IF HasTimer("countdown") THEN "interval" ELSE Null

\* React state as the detection callback reads it: the callback handed to
\* FaceDetectionManager.initialize belongs to the render in which the effect
\* ran, where isCapturing is false and faceInRegion is false
HandlerIsCapturing_interval == FALSE

HandlerFaceInRegion_interval == FALSE

\* React state as the stability-check interval callback reads it:
\* startStabilityCheck is the one of that same render, where faceStableTime
\* is null and isCapturing is false
CheckFaceStableTime_interval == NoTime

CheckIsCapturing_interval == FALSE

\* startStabilityCheck: "if (stabilityCheckRef.current) return; ... setInterval(..., 100)"
startStabilityCheck(ts) ==
    IF stabilityCheckRef # Null THEN ts
    ELSE Append(ts, Timer("stabilityCheck", now + STABILITY_CHECK_MS, 0))

stopStabilityCheck(ts) == Without(ts, "stabilityCheck")

stopCountdown(ts) == Without(ts, "countdown")

\* handleFaceDetectionResults(results), called by the detection loop
handleFaceDetectionResults_interval(results) ==
    /\ variant = "interval"
    /\ detector \in {"running", "draining"}
    /\ now % FrameStep = 0
    /\ detector' = IF detector = "draining" THEN "stopped" ELSE detector
    /\ alignedSince' = IF session = "active"
                       THEN AlignedRun(Len(validFacesInRegion_interval(results)) > 0)
                       ELSE NoTime
    /\ IF overlayCanvasRef = Null \/ faceDetectionManagerRef = Null
            \/ HandlerIsCapturing_interval
       THEN /\ log' = [op |-> "frame", msg |-> "skipped"]
            /\ UNCHANGED <<faceInRegion, faceStableTime, countdown, timers>>
       ELSE LET faceInTargetRegion == Len(validFacesInRegion_interval(results)) > 0
            IN  IF faceInTargetRegion /\ ~HandlerIsCapturing_interval
                THEN IF ~HandlerFaceInRegion_interval
                     THEN /\ faceInRegion' = TRUE
                          /\ faceStableTime' = At(now)
                          /\ timers' = startStabilityCheck(timers)
                          /\ log' = [op |-> "frame", msg |-> "starting stability timer"]
                          /\ UNCHANGED countdown
                     ELSE /\ log' = [op |-> "frame", msg |-> "aligned"]
                          /\ UNCHANGED <<faceInRegion, faceStableTime, countdown, timers>>
                ELSE IF HandlerFaceInRegion_interval
                     THEN /\ faceInRegion' = FALSE
                          /\ faceStableTime' = NoTime
                          /\ countdown' = NoTime
                          /\ timers' = stopStabilityCheck(stopCountdown(timers))
                          /\ log' = [op |-> "frame", msg |-> "alignment lost"]
                     ELSE /\ log' = [op |-> "frame", msg |-> "not aligned"]
                          /\ UNCHANGED <<faceInRegion, faceStableTime, countdown, timers>>
    /\ UNCHANGED <<hookVars, filterVars, variant, queueVars, managerVars, now, session, isCapturing, error,
                   faceStableTimeRef, emitted, attempts, clicks>>

\* one run of the stability-check interval callback
stabilityCheck_interval ==
    \E i \in DOMAIN timers :
        /\ variant = "interval"
        /\ IsNextDue(i)
        /\ timers[i].kind = "stabilityCheck"
        /\ IF ~Truthy(CheckFaceStableTime_interval) \/ CheckIsCapturing_interval
           THEN /\ timers' = [timers EXCEPT ![i].due = @ + STABILITY_CHECK_MS]
                /\ log' = [op |-> "stabilityCheck", msg |-> "returned"]
                /\ UNCHANGED countdown
           ELSE LET elapsed == now - TimeOf(CheckFaceStableTime_interval)
                    \* Math.ceil(config.captureDelay / 1000)
                    count == (captureDelay_interval + 999) \div 1000
                IN  IF elapsed >= stabilityThreshold_interval
                    THEN /\ countdown' = At(count)
                         /\ timers' = Append(Remove(timers, i),
                               Timer("countdown", now + COUNTDOWN_MS, count))
                         /\ log' = [op |-> "stabilityCheck", msg |-> "starting countdown"]
                    ELSE /\ timers' = [timers EXCEPT ![i].due = @ + STABILITY_CHECK_MS]
                         /\ log' = [op |-> "stabilityCheck", msg |-> "progress"]
                         /\ UNCHANGED countdown
        /\ UNCHANGED <<intervalVars, hookVars, filterVars, variant, queueVars, managerVars, now, session, detector,
                       isCapturing, error, faceStableTimeRef, emitted, attempts,
                       clicks, alignedSince>>

\* captureImage, the Manual Capture button's handler
captureImage_interval(video) ==
    /\ variant = "interval"
    /\ session = "active"
    /\ clicks < MaxClicks
    /\ clicks' = clicks + 1
    /\ IF faceDetectionManagerRef = Null \/ isCapturing
       THEN /\ log' = [op |-> "captureImage", msg |-> "blocked"]
            /\ UNCHANGED <<isCapturing, error, countdown, timers, emitted, attempts>>
       ELSE LET imageData ==
                    IF video.readyState < 2 THEN Null
                    ELSE IF video.videoWidth = 0 \/ video.videoHeight = 0 THEN Null
                    ELSE captureTargetRegion(video, targetRegion)
            IN  /\ isCapturing' = TRUE
                /\ countdown' = At(0)
                /\ attempts' = attempts + 1
                /\ IF imageData # Null
                   THEN /\ emitted' = emitted + 1
                        /\ log' = [op |-> "captureImage", msg |-> "captured"]
                        /\ UNCHANGED error
                   ELSE /\ error' = "Capture failed"
                        /\ log' = [op |-> "captureImage", msg |-> "error"]
                        /\ UNCHANGED emitted
                \* finally: setTimeout(reset, 1000)
                /\ timers' = Append(timers,
                      Timer("resetCaptureState", now + CAPTURE_RESET_DELAY, 0))
    /\ UNCHANGED <<intervalVars, hookVars, filterVars, variant, queueVars, managerVars, now, session, detector,
                   faceStableTimeRef, alignedSince>>

\* the reset timeout of captureImage's finally block
resetCaptureState_interval ==
    \E i \in DOMAIN timers :
        /\ variant = "interval"
        /\ IsNextDue(i)
        /\ timers[i].kind = "resetCaptureState"
        /\ isCapturing' = FALSE
        /\ faceInRegion' = FALSE
        /\ faceStableTime' = NoTime
        /\ countdown' = NoTime
        /\ timers' = stopStabilityCheck(stopCountdown(Remove(timers, i)))
        /\ log' = [op |-> "resetCaptureState", msg |-> "reset"]
        /\ UNCHANGED <<hookVars, filterVars, variant, queueVars, managerVars, now, session, detector, error,
                       faceStableTimeRef, emitted, attempts, clicks, alignedSince>>

\* stopCamera, run by the effect when isActive becomes false.  A detection
\* whose await is pending when the manager is stopped still calls back once.
stopCamera_interval(inFlight) ==
    /\ variant = "interval"
    /\ session = "active"
    /\ session' = "stopped"
    /\ detector' = IF inFlight THEN "draining" ELSE "stopped"
    /\ timers' = stopStabilityCheck(stopCountdown(timers))
    /\ faceInRegion' = FALSE
    /\ faceStableTime' = NoTime
    /\ countdown' = NoTime
    /\ alignedSince' = NoTime
    /\ log' = [op |-> "stopCamera", msg |-> "stopped"]
    /\ UNCHANGED <<hookVars, filterVars, variant, queueVars, managerVars, now, isCapturing, error, faceStableTimeRef,
                   emitted, attempts, clicks>>

InitInterval ==
    /\ variant = "interval"
    /\ manager = NoManager
    /\ videoElement = NoVideo
    /\ capturedImage = NoImage
    /\ delivered = 0
    /\ NoQueueMounted
    /\ now = FrameStep
    /\ session = "active"
    /\ detector = "running"
    /\ isCapturing = FALSE
    /\ error = Null
    /\ faceStableTimeRef = NoTime
    /\ timers = <<>>
    /\ emitted = 0
    /\ attempts = 0
    /\ clicks = 0
    /\ alignedSince = NoTime
    /\ log = [op |-> "initializeCamera", msg |-> "initialized"]
    /\ faceInRegion = FALSE
    /\ faceStableTime = NoTime
    /\ countdown = NoTime
    /\ stableTimeRef = NoTime
    /\ faceStable = FALSE
    /\ faceDetected = FALSE
    /\ isDetecting = FALSE
    /\ everInside = FALSE
    /\ frame = <<>>
    /\ alignment = NotEvaluated

NextInterval ==
    \/ Advance
    \/ \E results \in SceneFrames : handleFaceDetectionResults_interval(results)
    \/ stabilityCheck_interval
    \/ \E video \in VideoStates : captureImage_interval(video)
    \/ resetCaptureState_interval
    \/ \E inFlight \in BOOLEAN : stopCamera_interval(inFlight)

SpecInterval == InitInterval /\ [][NextInterval]_vars

----------------------------------------------------------------------------
\* The interval variant with the event loop's guarantees: the clock keeps
\* moving up to the end of the run, the detector keeps delivering frames
\* while it runs, and an interval or timeout callback that is due is run.
SpecIntervalLive ==
    /\ InitInterval
    /\ [][NextInterval]_vars
    /\ WF_vars(Advance)
    /\ WF_vars(stabilityCheck_interval)
    /\ WF_vars(resetCaptureState_interval)

(* hook: src/src/components/FaceApiLoader.tsx, useFaceDetection, on the       *)
(* MediaPipe FaceDetectionManager of src/src/lib/face-detection.ts           *)

\* MediaPipe createTargetRegion(canvasWidth, canvasHeight), in tenths of a pixel
createTargetRegion_mediapipe(canvasWidth, canvasHeight) ==
    LET regionWidth == canvasWidth * 3       \* canvasWidth * 0.3
        regionHeight == canvasHeight * 4     \* canvasHeight * 0.4
    IN  [x |-> (canvasWidth * 10 - regionWidth) \div 2,
         y |-> (canvasHeight * 10 - regionHeight) \div 2,
         width |-> regionWidth,
         height |-> regionHeight]

\* the hook's targetRegion: canvasWidth = 640, canvasHeight = 480
targetRegion_hook == createTargetRegion_mediapipe(640, 480)

\* FaceDetectionManager.isInTargetRegion: the centre of the box and the confidence
isInTargetRegion(detection, region) ==
    LET bbox == detection.bbox
        centerX == bbox.x * 10 + bbox.width * 5      \* bbox.x + bbox.width / 2
        centerY == bbox.y * 10 + bbox.height * 5
    IN  /\ centerX >= region.x
        /\ centerX <= region.x + region.width
        /\ centerY >= region.y
        /\ centerY <= region.y + region.height
        /\ detection.confidence >= minDetectionConfidence_hook

\* FaceDetectionManager.captureImage: the display canvas as a data URL
captureImage_mediapipe == "data:image/jpeg"

\* managerRef.current: set by initialize, never cleared
managerRef == "manager"

\* React state as handleDetectionResults reads it: the callback handed to
\* FaceDetectionManager.initialize belongs to the render that created
\* initialize, where isCapturing and faceStable are false
HandlerIsCapturing_hook == FALSE

HandlerFaceStable_hook == FALSE

\* the countdown callback reading the isCapturing of the latest render
CountdownIsCapturing_live == isCapturing

\* isCapturing as the countdown callback reads it: startCountdown is the one
\* of that same render
CountdownIsCapturing_hook == FALSE

\* startCountdown without its first line, "if (countdownIntervalRef.current) return;"
startCountdown_unguarded(ts) ==
    Append(ts, Timer("countdown", now + COUNTDOWN_MS,
                     (captureDelay_hook + 999) \div 1000))

\* startCountdown: "if (countdownIntervalRef.current) return; ... setInterval(..., 1000)"
startCountdown(ts) ==
    IF countdownIntervalRef # Null THEN ts
    ELSE Append(ts, Timer("countdown", now + COUNTDOWN_MS,
                          (captureDelay_hook + 999) \div 1000))

\* handleDetectionResults(results), called by the detector
handleDetectionResults(results) ==
    /\ variant = "hook"
    /\ detector \in {"running", "draining"}
    /\ now % FrameStep = 0
    /\ detector' = IF detector = "draining" THEN "stopped" ELSE detector
    /\ everInside' = (everInside \/ \E i \in DOMAIN results :
                          faceFullyInRegion(results[i].bbox, targetRegion_hook))
    /\ IF managerRef = Null \/ HandlerIsCapturing_hook
       THEN /\ log' = [op |-> "frame", msg |-> "skipped"]
            /\ UNCHANGED <<stableTimeRef, faceStable, faceDetected, countdown, timers>>
       ELSE LET faceInRegion_ == \E i \in DOMAIN results :
                                    isInTargetRegion(results[i], targetRegion_hook)
            IN  /\ faceDetected' = faceInRegion_
                /\ IF faceInRegion_
                   THEN IF ~Truthy(stableTimeRef)
                        THEN /\ stableTimeRef' = At(now)
                             /\ faceStable' = FALSE
                             /\ log' = [op |-> "frame", msg |-> "tracking"]
                             /\ UNCHANGED <<countdown, timers>>
                        ELSE LET elapsed == now - TimeOf(stableTimeRef)
                             IN  IF elapsed >= stabilityThreshold_hook
                                       /\ ~HandlerFaceStable_hook
                                 THEN /\ faceStable' = TRUE
                                      /\ timers' = startCountdown(timers)
                                      /\ countdown' =
                                            IF countdownIntervalRef # Null THEN countdown
                                            ELSE At((captureDelay_hook + 999) \div 1000)
                                      /\ log' = [op |-> "frame", msg |-> "stable"]
                                      /\ UNCHANGED stableTimeRef
                                 ELSE /\ log' = [op |-> "frame", msg |-> "continuing"]
                                      /\ UNCHANGED <<stableTimeRef, faceStable,
                                                     countdown, timers>>
                   ELSE IF Truthy(stableTimeRef)
                        THEN /\ stableTimeRef' = NoTime
                             /\ faceStable' = FALSE
                             /\ timers' = stopCountdown(timers)
                             /\ countdown' = NoTime
                             /\ log' = [op |-> "frame", msg |-> "alignment lost"]
                        ELSE /\ log' = [op |-> "frame", msg |-> "not aligned"]
                             /\ UNCHANGED <<stableTimeRef, faceStable, countdown, timers>>
    /\ UNCHANGED <<intervalVars, filterVars, variant, queueVars, managerVars, now, session, isCapturing, error,
                   faceStableTimeRef, emitted, attempts, clicks, alignedSince,
                   isDetecting>>

\* one run of the countdown interval callback
countdownTick_hook ==
    \E i \in DOMAIN timers :
        /\ variant = "hook"
        /\ IsNextDue(i)
        /\ timers[i].kind = "countdown"
        /\ LET count == timers[i].count - 1
           IN  IF count > 0
               THEN /\ countdown' = At(count)
                    /\ timers' = [timers EXCEPT ![i].due = @ + COUNTDOWN_MS,
                                                ![i].count = count]
                    /\ log' = [op |-> "countdown", msg |-> "tick"]
                    /\ UNCHANGED <<isCapturing, emitted, attempts>>
               ELSE /\ countdown' = NoTime
                    /\ IF managerRef # Null /\ ~CountdownIsCapturing_hook
                       THEN /\ isCapturing' = TRUE
                            /\ attempts' = attempts + 1
                            /\ emitted' = IF captureImage_mediapipe # Null
                                          THEN emitted + 1 ELSE emitted
                            \* finally: captureTimeoutRef.current = setTimeout(reset, 1000)
                            /\ timers' = Append(Remove(timers, i),
                                  [id |-> timers[i].id, kind |-> "resetCapture",
                                   due |-> now + CAPTURE_RESET_DELAY, count |-> 0])
                            /\ log' = [op |-> "countdown", msg |-> "captured"]
                       ELSE /\ timers' = Remove(timers, i)
                            /\ log' = [op |-> "countdown", msg |-> "blocked"]
                            /\ UNCHANGED <<isCapturing, emitted, attempts>>
        /\ UNCHANGED <<intervalVars, hookVars, filterVars, variant, queueVars, managerVars, now, session, detector, error,
                       faceStableTimeRef, clicks, alignedSince>>

\* manualCapture, and the performCapture it calls
manualCapture ==
    /\ variant = "hook"
    /\ clicks < MaxClicks
    /\ clicks' = clicks + 1
    /\ IF ~isDetecting \/ isCapturing
       THEN /\ log' = [op |-> "manualCapture", msg |-> "blocked"]
            /\ UNCHANGED <<isCapturing, timers, emitted, attempts>>
       ELSE /\ isCapturing' = TRUE
            /\ attempts' = attempts + 1
            /\ emitted' = IF captureImage_mediapipe # Null THEN emitted + 1 ELSE emitted
            /\ timers' = Append(timers,
                  Timer("resetCapture", now + CAPTURE_RESET_DELAY, 0))
            /\ log' = [op |-> "manualCapture", msg |-> "captured"]
    /\ UNCHANGED <<intervalVars, hookVars, countdown, filterVars, variant, queueVars, managerVars, now, session, detector,
                   error, faceStableTimeRef, alignedSince>>

\* the reset timeout of a capture's finally block
resetCapture_hook ==
    \E i \in DOMAIN timers :
        /\ variant = "hook"
        /\ IsNextDue(i)
        /\ timers[i].kind = "resetCapture"
        /\ isCapturing' = FALSE
        /\ faceStable' = FALSE
        /\ stableTimeRef' = NoTime
        /\ timers' = Remove(timers, i)
        /\ log' = [op |-> "resetCapture", msg |-> "reset"]
        /\ UNCHANGED <<intervalVars, countdown, filterVars, variant, queueVars, managerVars, now, session, detector, error,
                       faceStableTimeRef, emitted, attempts, clicks, alignedSince,
                       faceDetected, isDetecting, everInside>>

\* stop.  A result MediaPipe is still computing when it is closed may still
\* be delivered once.
stop_hook(inFlight) ==
    /\ variant = "hook"
    /\ session = "active"
    /\ session' = "stopped"
    /\ isDetecting' = FALSE
    /\ timers' = stopCountdown(timers)
    /\ countdown' = NoTime
    /\ detector' = IF inFlight THEN "draining" ELSE "stopped"
    /\ faceDetected' = FALSE
    /\ faceStable' = FALSE
    /\ isCapturing' = FALSE
    /\ stableTimeRef' = NoTime
    /\ log' = [op |-> "stop", msg |-> "stopped"]
    /\ UNCHANGED <<intervalVars, filterVars, variant, queueVars, managerVars, now, error, faceStableTimeRef, emitted,
                   attempts, clicks, alignedSince, everInside>>

\* after initialize(...) and start()
InitHook ==
    /\ variant = "hook"
    /\ manager = NoManager
    /\ videoElement = NoVideo
    /\ capturedImage = NoImage
    /\ delivered = 0
    /\ NoQueueMounted
    /\ now = FrameStep
    /\ session = "active"
    /\ detector = "running"
    /\ isCapturing = FALSE
    /\ error = Null
    /\ faceStableTimeRef = NoTime
    /\ timers = <<>>
    /\ emitted = 0
    /\ attempts = 0
    /\ clicks = 0
    /\ alignedSince = NoTime
    /\ log = [op |-> "initialize", msg |-> "initialized"]
    /\ faceInRegion = FALSE
    /\ faceStableTime = NoTime
    /\ countdown = NoTime
    /\ stableTimeRef = NoTime
    /\ faceStable = FALSE
    /\ faceDetected = FALSE
    /\ isDetecting = TRUE
    /\ everInside = FALSE
    /\ frame = <<>>
    /\ alignment = NotEvaluated

NextHook ==
    \/ Advance
    \/ \E results \in SceneFrames : handleDetectionResults(results)
    \/ countdownTick_hook
    \/ manualCapture
    \/ resetCapture_hook
    \/ \E inFlight \in BOOLEAN : stop_hook(inFlight)

SpecHook == InitHook /\ [][NextHook]_vars

----------------------------------------------------------------------------
----------------------------------------------------------------------------
(* The two gates that keep their intervals in refs, side by side: Camera     *)
(* (stabilityCheckRef, countdownIntervalRef) and useFaceDetection            *)
(* (countdownIntervalRef).  A behaviour is a session of one of them; the    *)
(* Camera session ends at MaxTimeCamera, since its stability check never   *)
(* gets further than its first line however long the session lasts.        *)
\* the end of a Camera session in SpecCamera
MaxTimeCamera == 3000

InitCamera == InitInterval \/ InitHook

NextCamera ==
    \/ NextInterval /\ now' <= MaxTimeCamera
    \/ NextHook

SpecCamera == InitCamera /\ [][NextCamera]_vars

(* The validity filter on its own: every frame of FilterFrames is put        *)
(* through the filter of the ref variant and of the interval variant.        *)

\* GoodFace with one property at a time moved to either side of its limit
FaceSamples ==
    { GoodFace }
    \cup { Face(x, 100, 200, 250, 90, TRUE, 0, 0) : x \in {175, 176, 264, 265} }
    \cup { Face(200, y, 200, 250, 90, TRUE, 0, 0) : y \in {67, 68, 162, 163} }
    \cup { Face(180, 70, 40, 199, 90, TRUE, 0, 0),     \* 7960 px^2
           Face(180, 70, 44, 181, 90, TRUE, 0, 0),     \* 7964 px^2
           Face(180, 70, 245, 325, 90, TRUE, 0, 0),    \* 79625 px^2
           Face(180, 70, 270, 295, 90, TRUE, 0, 0) }   \* 79650 px^2
    \cup { Face(200, 100, 200, 250, c, TRUE, 0, 0) : c \in {49, 50} }
    \cup { Face(200, 100, 200, 250, 90, FALSE, 0, 0) }
    \cup { Face(200, 100, 200, 250, 90, TRUE, yaw, 0) : yaw \in {-26, -25, 25, 26} }
    \cup { Face(200, 100, 200, 250, 90, TRUE, 0, pitch) : pitch \in {-21, -20, 20, 21} }

FilterFrames == UNION { [1..n -> FaceSamples] : n \in 0..MaxFaces }

\* the ref variant's filter and its "faceInTargetRegion = validFacesInRegion.length > 0"
evaluate_ref ==
    /\ variant = "filter"
    /\ alignment' = [by |-> "ref",
                     faceInTargetRegion |-> Len(validFacesInRegion_ref(frame)) > 0,
                     validFaces |-> Len(validFacesInRegion_ref(frame))]
    /\ UNCHANGED <<intervalVars, hookVars, countdown, frame, variant, queueVars, managerVars, now, session,
                   detector, isCapturing, error, faceStableTimeRef, timers, emitted,
                   attempts, clicks, alignedSince, log>>

\* the interval variant's filter and its faceInTargetRegion
evaluate_interval ==
    /\ variant = "filter"
    /\ alignment' = [by |-> "interval",
                     faceInTargetRegion |-> Len(validFacesInRegion_interval(frame)) > 0,
                     validFaces |-> Len(validFacesInRegion_interval(frame))]
    /\ UNCHANGED <<intervalVars, hookVars, countdown, frame, variant, queueVars, managerVars, now, session,
                   detector, isCapturing, error, faceStableTimeRef, timers, emitted,
                   attempts, clicks, alignedSince, log>>

InitFilter ==
    /\ variant = "filter"
    /\ manager = NoManager
    /\ videoElement = NoVideo
    /\ capturedImage = NoImage
    /\ delivered = 0
    /\ NoQueueMounted
    /\ frame \in FilterFrames
    /\ alignment = NotEvaluated
    /\ now = FrameStep
    /\ session = "active"
    /\ detector = "running"
    /\ isCapturing = FALSE
    /\ error = Null
    /\ faceStableTimeRef = NoTime
    /\ timers = <<>>
    /\ emitted = 0
    /\ attempts = 0
    /\ clicks = 0
    /\ alignedSince = NoTime
    /\ log = [op |-> "initializeCamera", msg |-> "initialized"]
    /\ faceInRegion = FALSE
    /\ faceStableTime = NoTime
    /\ countdown = NoTime
    /\ stableTimeRef = NoTime
    /\ faceStable = FALSE
    /\ faceDetected = FALSE
    /\ isDetecting = FALSE
    /\ everInside = FALSE

NextFilter ==
    \/ evaluate_ref
    \/ evaluate_interval

SpecFilter == InitFilter /\ [][NextFilter]_vars

----------------------------------------------------------------------------
(* The FaceDetectionManager on its own (src/src/lib/face-detection.ts): the  *)
(* face-api.js manager's detection loop and captureTargetRegion, and the     *)
(* MediaPipe manager's onResults and captureImage.  A canvas is the set of   *)
(* layers drawn on it since it was last cleared.  manager.canvasElement is   *)
(* the canvas the page displays, manager.detectionCanvas is the canvas the   *)
(* constructor creates and never attaches to the page.                       *)

Layers == {"video", "box", "text"}

\* the face-api.js manager after initialize: isDetecting = true and the first
\* detectFaces call is due
FaceApiManager ==
    [kind |-> "faceapi", isDetecting |-> TRUE, isInitialized |-> TRUE,
     frameRequested |-> TRUE, awaiting |-> FALSE,
     canvasElement |-> {}, detectionCanvas |-> {}]

\* the MediaPipe manager after initialize: camera started, isInitialized = true
\* (it has no isDetecting field and no detectionCanvas)
MediaPipeManager ==
    [kind |-> "mediapipe", isDetecting |-> FALSE, isInitialized |-> TRUE,
     frameRequested |-> FALSE, awaiting |-> FALSE,
     canvasElement |-> {}, detectionCanvas |-> {}]

\* the playing stream, and the stream with one or two things wrong
ManagerVideoStates ==
    { Playing,
      [Playing EXCEPT !.readyState = 2],
      [Playing EXCEPT !.readyState = 1],
      [Playing EXCEPT !.readyState = 0],
      [Playing EXCEPT !.paused = TRUE],
      [Playing EXCEPT !.videoWidth = 0],
      [Playing EXCEPT !.videoHeight = 0],
      [Playing EXCEPT !.canvasCtx = FALSE],
      [Playing EXCEPT !.detectionCtx = FALSE],
      [Playing EXCEPT !.cropCtx = FALSE],
      [Playing EXCEPT !.throws = TRUE],
      [Playing EXCEPT !.dataURL = "data:,"],
      [Playing EXCEPT !.dataURL = ""],
      [Playing EXCEPT !.paused = TRUE, !.dataURL = "data:,"],
      [Playing EXCEPT !.readyState = 1, !.cropCtx = FALSE] }

\* regions handed to captureTargetRegion: the controller's target region, and
\* regions that leave the 640 x 480 frame on the right, at the bottom, on the left
CaptureRegions ==
    { targetRegion,
      [targetRegion EXCEPT !.x = 3530],
      [targetRegion EXCEPT !.y = 1350],
      [targetRegion EXCEPT !.x = -10] }

\* what detectAllFaces resolves to
ManagerFrames == { <<>>, <<GoodFace>> }

\* variables no action of the manager touches
gateVars == <<now, session, detector, isCapturing, faceStableTimeRef, timers, clicks,
              alignedSince, countdown, intervalVars, hookVars, alignment>>

\* this.animationFrameId = requestAnimationFrame(() => this.detectFaces())
requestAnimationFrame(m) == [m EXCEPT !.frameRequested = TRUE]

\* "Continue detection loop": if (this.isDetecting) requestAnimationFrame(...)
continueLoop(m) == IF m.isDetecting THEN requestAnimationFrame(m) ELSE m

videoNotReady_readyStateOnly(video) == video.readyState < 2

\* "if (this.videoElement.readyState < 2 || this.videoElement.paused)"
videoNotReady(video) == video.readyState < 2 \/ video.paused

\* the environment: the stream pauses, loses its data, a context gets lost, ...
videoChange ==
    /\ variant = "manager"
    /\ \E v \in ManagerVideoStates : v # videoElement /\ videoElement' = v
    /\ UNCHANGED <<gateVars, variant, queueVars, error, emitted, attempts, log, frame, manager,
                   capturedImage, delivered>>

\* face-api.js detectFaces, from its entry to "await this.faceapi.detectAllFaces"
detectFaces ==
    /\ variant = "manager"
    /\ manager.kind = "faceapi"
    /\ manager.frameRequested
    /\ delivered < MaxDelivered
    /\ LET m == [manager EXCEPT !.frameRequested = FALSE]
       IN  IF ~m.isDetecting
           THEN /\ manager' = m
                /\ log' = [op |-> "detectFaces", msg |-> "not detecting"]
           ELSE IF videoNotReady(videoElement)
           THEN /\ manager' = requestAnimationFrame(m)
                /\ log' = [op |-> "detectFaces", msg |-> "video not ready"]
           ELSE IF videoElement.videoWidth = 0 \/ videoElement.videoHeight = 0
           THEN /\ manager' = requestAnimationFrame(m)
                /\ log' = [op |-> "detectFaces", msg |-> "no dimensions"]
           ELSE IF ~videoElement.canvasCtx \/ ~videoElement.detectionCtx
           THEN /\ manager' = requestAnimationFrame(m)
                /\ log' = [op |-> "detectFaces", msg |-> "no context"]
           ELSE IF videoElement.throws
           THEN \* drawImage throws after both canvases were cleared: catch
                /\ manager' = continueLoop([m EXCEPT !.canvasElement = {},
                                                     !.detectionCanvas = {}])
                /\ log' = [op |-> "detectFaces", msg |-> "Detection error"]
           ELSE /\ manager' = [m EXCEPT !.canvasElement = {"video"},
                                        !.detectionCanvas = {"video"},
                                        !.awaiting = TRUE]
                /\ log' = [op |-> "detectFaces", msg |-> "detecting"]
    /\ UNCHANGED <<gateVars, variant, queueVars, error, emitted, attempts, frame, videoElement,
                   capturedImage, delivered>>

\* face-api.js detectFaces, from the end of the await to its return: the
\* detection either rejects (catch) or resolves to results
detectFaces_resume ==
    /\ variant = "manager"
    /\ manager.kind = "faceapi"
    /\ manager.awaiting
    /\ LET m == [manager EXCEPT !.awaiting = FALSE]
       IN  \/ /\ manager' = continueLoop(m)
              /\ log' = [op |-> "detectFaces", msg |-> "Detection error"]
              /\ UNCHANGED <<frame, delivered>>
           \/ \E results \in ManagerFrames :
                /\ manager' = continueLoop(
                       [m EXCEPT !.canvasElement =
                           @ \cup (IF Len(results) > 0 THEN {"box", "text"} ELSE {})])
                /\ frame' = results
                /\ delivered' = delivered + 1
                /\ log' = [op |-> "detectFaces", msg |-> "results"]
    /\ UNCHANGED <<gateVars, variant, queueVars, error, emitted, attempts, videoElement, capturedImage>>

\* FaceDetectionManager.stop of either manager (cancelAnimationFrame,
\* camera.stop)
stop_manager ==
    /\ variant = "manager"
    /\ manager.isInitialized
    /\ manager' = [manager EXCEPT !.isDetecting = FALSE, !.isInitialized = FALSE,
                                  !.frameRequested = FALSE]
    /\ log' = [op |-> "stop", msg |-> "stopped"]
    /\ UNCHANGED <<gateVars, variant, queueVars, error, emitted, attempts, frame, videoElement,
                   capturedImage, delivered>>

\* captureTargetRegion of the face-api.js manager as performSingleCapture calls
\* it (Camera.tsx 997-1004, 1018-1020): the image goes to onImageCaptured, no
\* image becomes the error string
capture_faceapi ==
    /\ variant = "manager"
    /\ manager.kind = "faceapi"
    /\ attempts < MaxAttempts
    /\ \E region \in CaptureRegions :
        LET reachedDraw == /\ videoElement.videoWidth # 0
                           /\ videoElement.videoHeight # 0
                           /\ videoElement.readyState >= 2
                           /\ videoElement.detectionCtx
            canvas == IF ~reachedDraw THEN manager.detectionCanvas
                      ELSE IF videoElement.throws THEN {}
                      ELSE {"video"}
            dataURL == captureTargetRegion(videoElement, region)
        IN  /\ manager' = [manager EXCEPT !.detectionCanvas = canvas]
            /\ capturedImage' = [dataURL |-> dataURL,
                             pixels |-> IF dataURL = Null THEN {} ELSE canvas]
            /\ log' = [op |-> "captureTargetRegion", region |-> region]
            /\ IF dataURL # Null
               THEN emitted' = emitted + 1 /\ UNCHANGED error
               ELSE error' = "Failed to capture image" /\ UNCHANGED emitted
    /\ attempts' = attempts + 1
    /\ UNCHANGED <<gateVars, variant, queueVars, frame, videoElement, delivered>>

\* MediaPipe: camera.onFrame -> faceDetection.send -> onResults
onResults_mediapipe ==
    /\ variant = "manager"
    /\ manager.kind = "mediapipe"
    /\ manager.isInitialized
    /\ delivered < MaxDelivered
    /\ \E results \in ManagerFrames :
        IF ~videoElement.canvasCtx
        THEN /\ log' = [op |-> "onResults", msg |-> "no context"]
             /\ UNCHANGED <<manager, frame, delivered>>
        ELSE /\ manager' = [manager EXCEPT !.canvasElement =
                     {"video"} \cup (IF Len(results) > 0 THEN {"box", "text"} ELSE {})]
             /\ frame' = results
             /\ delivered' = delivered + 1
             /\ log' = [op |-> "onResults", msg |-> "results"]
    /\ UNCHANGED <<gateVars, variant, queueVars, error, emitted, attempts, videoElement, capturedImage>>

\* captureImage of the MediaPipe manager as performCapture calls it
\* (FaceApiLoader.tsx 371-373): this.canvasElement.toDataURL
captureImage_manager ==
    /\ variant = "manager"
    /\ manager.kind = "mediapipe"
    /\ attempts < MaxAttempts
    /\ capturedImage' = [dataURL |-> captureImage_mediapipe, pixels |-> manager.canvasElement]
    /\ emitted' = emitted + 1
    /\ attempts' = attempts + 1
    /\ log' = [op |-> "captureImage", msg |-> "captured"]
    /\ UNCHANGED <<gateVars, variant, queueVars, error, frame, manager, videoElement, delivered>>

InitManager ==
    /\ variant = "manager"
    /\ manager \in {FaceApiManager, MediaPipeManager}
    /\ videoElement = Playing
    /\ capturedImage = NoImage
    /\ delivered = 0
    /\ NoQueueMounted
    /\ frame = <<>>
    /\ alignment = NotEvaluated
    /\ now = FrameStep
    /\ session = "active"
    /\ detector = "running"
    /\ isCapturing = FALSE
    /\ error = Null
    /\ faceStableTimeRef = NoTime
    /\ timers = <<>>
    /\ emitted = 0
    /\ attempts = 0
    /\ clicks = 0
    /\ alignedSince = NoTime
    /\ log = [op |-> "initialize", msg |-> "initialized"]
    /\ faceInRegion = FALSE
    /\ faceStableTime = NoTime
    /\ countdown = NoTime
    /\ stableTimeRef = NoTime
    /\ faceStable = FALSE
    /\ faceDetected = FALSE
    /\ isDetecting = FALSE
    /\ everInside = FALSE

NextManager ==
    \/ videoChange
    \/ detectFaces
    \/ detectFaces_resume
    \/ stop_manager
    \/ capture_faceapi
    \/ onResults_mediapipe
    \/ captureImage_manager

SpecManager == InitManager /\ [][NextManager]_vars

----------------------------------------------------------------------------
(* Processing queues: the page-level queue of Home (src/src/app/page.tsx)   *)
(* and the useQueue hook (src/src/components/FaceApiLoader.tsx, 521-788).   *)
(* `queue` is the React state with every setQueue updater applied, in call  *)
(* order.  A render copies it to `rendered`: the queue that processQueue,   *)
(* processNext and the effects created by that render read.  An effect runs *)
(* after its render and before the next render; handlers, API responses and *)
(* timeouts may run in between.  useQueue runs with autoProcess = true and  *)
(* for less than the five minutes after which its periodic cleanup removes  *)
(* an item.                                                                 *)

\* currentProcessingId: null
NoId == 0

\* useQueue option maxQueueSize (default 10)
maxQueueSize == 2

\* the number of addToQueue calls in one session of useQueue
MaxAdds == 3

\* the variables of the gate and of the detection manager
notQueueVars == <<gateVars, managerVars, variant, error, emitted, attempts, frame>>

Item(id, status) == [id |-> id, status |-> status]

hasStatus(items, status) == \E i \in DOMAIN items : items[i].status = status

ItemsWith(items, status) == { items[i].id : i \in { j \in DOMAIN items : items[j].status = status } }

IdsOf(items) == { items[i].id : i \in DOMAIN items }

\* prev.items.indexOf(item): the first position that holds the item
indexOf(items, item) ==
    CHOOSE i \in DOMAIN items : items[i] = item /\ \A j \in 1..(i - 1) : items[j] # item

findPending_last(items) ==
    IF hasStatus(items, "pending")
    THEN items[CHOOSE i \in DOMAIN items :
                 /\ items[i].status = "pending"
                 /\ \A j \in (i + 1)..Len(items) : items[j].status # "pending"].id
    ELSE NoId

\* queue.items.find(item => item.status === 'pending'): the id of the first
\* pending item, NoId for undefined
findPending(items) ==
    IF hasStatus(items, "pending")
    THEN items[CHOOSE i \in DOMAIN items :
                 /\ items[i].status = "pending"
                 /\ \A j \in 1..(i - 1) : items[j].status # "pending"].id
    ELSE NoId

\* prev.items.map(item => item.id === id ? { ...item, status } : item)
updateQueueItem(items, id, status) ==
    [i \in DOMAIN items |->
        IF items[i].id = id THEN [items[i] EXCEPT !.status = status] ELSE items[i]]

\* prev.items.filter(item => item.id !== id)
withoutItem(items, id) ==
    LET keep(item) == item.id # id
    IN  SelectSeq(items, keep)

keepProcessingAndError(items) ==
    LET keep(item) == item.status \in {"processing", "error"}
    IN  SelectSeq(items, keep)

\* prev.items.filter(item => item.status === 'processing')
keepProcessing(items) ==
    LET keep(item) == item.status = "processing"
    IN  SelectSeq(items, keep)

\* A processing timeout lasts processingTimeout = 120000 ms, React renders
\* and runs effects within milliseconds: a timeout can fire only after the
\* render that followed its setTimeout, and that render's effect, have run.
\* `age` counts these two steps.
aged(timeouts, from) ==
    { IF t.age = from THEN [t EXCEPT !.age = from + 1] ELSE t : t \in timeouts }

\* React renders the component: the callbacks and effects of this render
\* read the queue as it is now; queue.items is a new array after every
\* updater, so the effect that depends on it is scheduled
render ==
    /\ variant \in {"page", "useQueue"}
    /\ renderPending
    /\ ~effectPending
    /\ rendered' = queue
    /\ renderPending' = FALSE
    /\ effectPending' = TRUE
    /\ processingTimeouts' = aged(processingTimeouts, 0)
    /\ log' = [op |-> "render", msg |-> "rendered"]
    /\ UNCHANGED <<notQueueVars, queue, requests, completedResults, sent, created,
                   isProcessingRef, processingTimeoutRef, autoProcessTimer, timedOut>>

(* page.tsx *)

\* handleImageCaptured(imageData), also reached through handleFileUploaded
handleImageCaptured ==
    /\ variant = "page"
    /\ created < MaxItems
    /\ created' = created + 1
    /\ queue' = [queue EXCEPT !.items = Append(@, Item(created + 1, "pending"))]
    /\ renderPending' = TRUE
    /\ log' = [op |-> "handleImageCaptured", msg |-> "queued"]
    /\ UNCHANGED <<notQueueVars, rendered, effectPending, requests, completedResults, sent,
                   isProcessingRef, processingTimeoutRef, processingTimeouts,
                   autoProcessTimer, timedOut>>

\* handleClearQueue, the Clear Queue button (shown while the rendered queue has items)
handleClearQueue ==
    /\ variant = "page"
    /\ Len(rendered.items) > 0
    /\ queue' = [queue EXCEPT !.items = keepProcessing(@)]
    /\ renderPending' = TRUE
    /\ log' = [op |-> "clearQueue", msg |-> "cleared"]
    /\ UNCHANGED <<notQueueVars, rendered, effectPending, requests, completedResults, sent,
                   created, isProcessingRef, processingTimeoutRef, processingTimeouts,
                   autoProcessTimer, timedOut>>

\* the process-queue effect: processQueue() of the last render, up to its
\* first await
processQueue ==
    /\ variant = "page"
    /\ effectPending
    /\ effectPending' = FALSE
    /\ LET nextItem == findPending(rendered.items)
       IN  IF rendered.currentProcessingId # NoId \/ Len(rendered.items) = 0
                \/ nextItem = NoId
           THEN /\ log' = [op |-> "processQueue", msg |-> "returned"]
                /\ UNCHANGED <<queue, renderPending, requests, sent>>
           ELSE /\ queue' = [currentProcessingId |-> nextItem,
                             items |-> updateQueueItem(queue.items, nextItem, "processing")]
                /\ renderPending' = TRUE
                /\ requests' = requests \cup {nextItem}
                /\ sent' = [sent EXCEPT ![nextItem] = @ + 1]
                /\ log' = [op |-> "processQueue", msg |-> "sent"]
    /\ UNCHANGED <<notQueueVars, rendered, completedResults, created, isProcessingRef,
                   processingTimeoutRef, processingTimeouts, autoProcessTimer, timedOut>>

markError_idKept(q, id) ==
    [currentProcessingId |-> q.currentProcessingId,
     items |-> updateQueueItem(q.items, id, "error")]

\* the updater of processQueue's error paths
markError(q, id) ==
    [currentProcessingId |-> NoId,
     items |-> updateQueueItem(q.items, id, "error")]

\* the outcomes of a process-image request: a success response, a failure
\* response, a rejected fetch
Outcomes == {"ok", "failed", "network"}

\* processQueue after its awaits: the response for item `id` has arrived
processQueue_response(id, outcome) ==
    /\ variant = "page"
    /\ id \in requests
    /\ requests' = requests \ {id}
    /\ IF outcome = "ok"
       THEN /\ completedResults' = <<id>> \o completedResults
            /\ queue' = [items |-> withoutItem(queue.items, id),
                         currentProcessingId |-> NoId]
       ELSE /\ queue' = markError(queue, id)
            /\ UNCHANGED completedResults
    /\ renderPending' = TRUE
    /\ log' = [op |-> "response", msg |-> IF outcome = "ok" THEN "ok" ELSE "error"]
    /\ UNCHANGED <<notQueueVars, rendered, effectPending, sent, created, isProcessingRef,
                   processingTimeoutRef, processingTimeouts, autoProcessTimer, timedOut>>

(* useQueue *)

\* addToQueue(imageData)
addToQueue ==
    /\ variant = "useQueue"
    /\ created < MaxAdds
    /\ created' = created + 1
    /\ LET newItem == Item(created + 1, "pending")
           keep(item) == item.status # "pending"
                            \/ indexOf(queue.items, item) = Len(queue.items)
           filteredItems == SelectSeq(queue.items, keep)
       IN  IF Len(queue.items) >= maxQueueSize
           THEN /\ queue' = [queue EXCEPT !.items = Append(filteredItems, newItem)]
                /\ log' = [op |-> "addToQueue", msg |-> "queue is full"]
           ELSE /\ queue' = [queue EXCEPT !.items = Append(@, newItem)]
                /\ log' = [op |-> "addToQueue", msg |-> "queued"]
    /\ renderPending' = TRUE
    /\ UNCHANGED <<notQueueVars, rendered, effectPending, requests, completedResults, sent,
                   isProcessingRef, processingTimeoutRef, processingTimeouts,
                   autoProcessTimer, timedOut>>

\* removeFromQueue(id), for an item the host component displays
removeFromQueue(id) ==
    /\ variant = "useQueue"
    /\ id \in IdsOf(rendered.items)
    /\ queue' = [items |-> withoutItem(queue.items, id),
                 currentProcessingId |-> IF queue.currentProcessingId = id THEN NoId
                                         ELSE queue.currentProcessingId]
    /\ renderPending' = TRUE
    /\ log' = [op |-> "removeFromQueue", msg |-> "removed"]
    /\ UNCHANGED <<notQueueVars, rendered, effectPending, requests, completedResults, sent,
                   created, isProcessingRef, processingTimeoutRef, processingTimeouts,
                   autoProcessTimer, timedOut>>

\* clearQueue()
clearQueue ==
    /\ variant = "useQueue"
    /\ Len(rendered.items) > 0
    /\ queue' = [queue EXCEPT !.items = keepProcessing(@)]
    /\ renderPending' = TRUE
    /\ log' = [op |-> "clearQueue", msg |-> "cleared"]
    /\ UNCHANGED <<notQueueVars, rendered, effectPending, requests, completedResults, sent,
                   created, isProcessingRef, processingTimeoutRef, processingTimeouts,
                   autoProcessTimer, timedOut>>

\* the auto-process effect of the last render: the cleanup of its previous
\* run clears that run's timer, then a new 100 ms timer may be set; the
\* timer's callback is the processNext of this render, kept as the two values
\* it reads from its closure: queue.items.find(pending) and queue.currentProcessingId
autoProcessEffect ==
    /\ variant = "useQueue"
    /\ effectPending
    /\ effectPending' = FALSE
    /\ autoProcessTimer' =
          IF ~isProcessingRef /\ rendered.currentProcessingId = NoId
                /\ hasStatus(rendered.items, "pending")
          THEN <<[nextItem |-> findPending(rendered.items),
                  currentProcessingId |-> rendered.currentProcessingId]>>
          ELSE <<>>
    /\ processingTimeouts' = aged(processingTimeouts, 1)
    /\ log' = [op |-> "autoProcessEffect", msg |-> "ran"]
    /\ UNCHANGED <<notQueueVars, queue, rendered, renderPending, requests, completedResults,
                   sent, created, isProcessingRef, processingTimeoutRef, timedOut>>

\* the 100 ms timer fires: processNext(), up to its first await
processNext ==
    /\ variant = "useQueue"
    /\ autoProcessTimer # <<>>
    /\ autoProcessTimer' = <<>>
    /\ LET closure == autoProcessTimer[1]
           nextItem == closure.nextItem
       IN  IF isProcessingRef \/ nextItem = NoId \/ closure.currentProcessingId # NoId
           THEN /\ log' = [op |-> "processNext", msg |-> "returned"]
                /\ UNCHANGED <<queue, renderPending, requests, sent, isProcessingRef,
                               processingTimeoutRef, processingTimeouts>>
           ELSE /\ isProcessingRef' = TRUE
                /\ queue' = [currentProcessingId |-> nextItem,
                             items |-> updateQueueItem(queue.items, nextItem, "processing")]
                /\ renderPending' = TRUE
                /\ processingTimeoutRef' = nextItem
                /\ processingTimeouts' = processingTimeouts \cup {[id |-> nextItem, age |-> 0]}
                /\ requests' = requests \cup {nextItem}
                /\ sent' = [sent EXCEPT ![nextItem] = @ + 1]
                /\ log' = [op |-> "processNext", msg |-> "sent"]
    /\ UNCHANGED <<notQueueVars, rendered, effectPending, completedResults, created, timedOut>>

\* the processing timeout of item `id` fires
processingTimeout(id) ==
    /\ variant = "useQueue"
    /\ [id |-> id, age |-> 2] \in processingTimeouts
    /\ processingTimeouts' = processingTimeouts \ {[id |-> id, age |-> 2]}
    /\ timedOut' = timedOut \cup {id}
    /\ queue' = [currentProcessingId |-> NoId,
                 items |-> updateQueueItem(queue.items, id, "error")]
    /\ isProcessingRef' = FALSE
    /\ renderPending' = TRUE
    /\ log' = [op |-> "processingTimeout", msg |-> "timeout"]
    /\ UNCHANGED <<notQueueVars, rendered, effectPending, requests, completedResults, sent,
                   created, processingTimeoutRef, autoProcessTimer>>

\* processNext after its awaits: the response for item `id` has arrived
\* (try, catch and finally blocks)
processNext_response(id, outcome) ==
    /\ variant = "useQueue"
    /\ id \in requests
    /\ requests' = requests \ {id}
    \* clearTimeout(processingTimeoutRef.current)
    /\ processingTimeouts' = { t \in processingTimeouts : t.id # processingTimeoutRef }
    /\ processingTimeoutRef' = NoId
    /\ queue' = [currentProcessingId |-> NoId,
                 items |-> updateQueueItem(queue.items, id,
                              IF outcome = "ok" THEN "completed" ELSE "error")]
    /\ isProcessingRef' = FALSE
    /\ renderPending' = TRUE
    /\ log' = [op |-> "response", msg |-> IF outcome = "ok" THEN "ok" ELSE "error"]
    /\ UNCHANGED <<notQueueVars, rendered, effectPending, completedResults, sent, created,
                   autoProcessTimer, timedOut>>

\* a freshly mounted component with its queue; no gate is modelled
QueueMounted ==
    /\ NoQueueMounted
    /\ manager = NoManager
    /\ videoElement = NoVideo
    /\ capturedImage = NoImage
    /\ delivered = 0
    /\ frame = <<>>
    /\ alignment = NotEvaluated
    /\ now = 0
    /\ session = "active"
    /\ detector = "stopped"
    /\ isCapturing = FALSE
    /\ error = Null
    /\ faceStableTimeRef = NoTime
    /\ timers = <<>>
    /\ emitted = 0
    /\ attempts = 0
    /\ clicks = 0
    /\ alignedSince = NoTime
    /\ log = [op |-> "mount", msg |-> "mounted"]
    /\ faceInRegion = FALSE
    /\ faceStableTime = NoTime
    /\ countdown = NoTime
    /\ stableTimeRef = NoTime
    /\ faceStable = FALSE
    /\ faceDetected = FALSE
    /\ isDetecting = FALSE
    /\ everInside = FALSE

InitPage == variant = "page" /\ QueueMounted

NextPage ==
    \/ render
    \/ handleImageCaptured
    \/ handleClearQueue
    \/ processQueue
    \/ \E id \in ItemIds, outcome \in Outcomes : processQueue_response(id, outcome)

SpecPage == InitPage /\ [][NextPage]_vars

\* The page-level queue with React's and the network's guarantees: a pending
\* render and a pending effect are run, and every process-image request
\* eventually returns or fails.
SpecPageLive ==
    /\ InitPage
    /\ [][NextPage]_vars
    /\ WF_vars(render)
    /\ WF_vars(processQueue)
    /\ WF_vars(\E id \in ItemIds, outcome \in Outcomes : processQueue_response(id, outcome))

InitUseQueue == variant = "useQueue" /\ QueueMounted

NextUseQueue ==
    \/ render
    \/ addToQueue
    \/ \E id \in ItemIds : removeFromQueue(id)
    \/ clearQueue
    \/ autoProcessEffect
    \/ processNext
    \/ \E id \in ItemIds : processingTimeout(id)
    \/ \E id \in ItemIds, outcome \in Outcomes : processNext_response(id, outcome)

SpecUseQueue == InitUseQueue /\ [][NextUseQueue]_vars

----------------------------------------------------------------------------
(* Properties *)

\* the capture actions that are outstanding: started, and not yet reset
OutstandingCaptures ==
    Cardinality({ i \in DOMAIN timers :
                    timers[i].kind \in {"performSingleCapture", "resetCapturing",
                                        "resetCaptureState", "resetCapture"} })

\* ref variant: the cooldown after a capture: the capture has run, isCapturing
\* is still set and its reset timeout is pending
Cooldown_ref == session = "active" /\ isCapturing /\ HasTimer("resetCapturing")

\* C1: when alignment has held on every frame for the stability duration, a
\* capture has fired.  Stated for the interval variant with the countdown it
\* puts between the threshold and the capture, and one more countdown period,
\* allowed for: without any manual capture, once alignment has held on every
\* frame for stabilityThreshold + captureDelay + 1000 ms, a capture has started.
C1_CaptureAfterStability ==
    ( /\ session = "active"
      /\ clicks = 0
      /\ alignedSince # NoTime
      /\ now - TimeOf(alignedSince) >=
            stabilityThreshold_interval + captureDelay_interval + COUNTDOWN_MS )
    => attempts >= 1

C3_TimerResetOnLoss ==
    (log.op = "frame" /\ log.msg \in {"not aligned", "alignment lost"})
    => (faceStableTime = NoTime /\ (clicks = 0 => attempts = 0))

\* C4: after a frame evaluated without alignment no countdown is running and
\* the stability timer is null.
C4_CountdownCancelledOnLoss ==
    (session = "active" /\ log.op = "frame"
        /\ log.msg \in {"not aligned", "alignment lost"})
    => (countdownIntervalRef = Null /\ countdown = NoTime /\ stableTimeRef = NoTime)

C6_IdleAfterCooldown ==
    (session = "active" /\ log.op = "resetCapturing")
    => (~isCapturing /\ faceStableTimeRef = NoTime)

\* C7: after a manual capture request that was accepted, the controller is
\* capturing and the stability timer is null.
C7_ManualResetsTimer ==
    (log.op = "captureImage" /\ log.msg \in {"captured", "error"})
    => (isCapturing /\ faceStableTime = NoTime)

FiveCriteria(face) ==
    /\ face.bbox.x >= 176
    /\ face.bbox.x + face.bbox.width <= 464
    /\ 10 * face.bbox.y >= 672
    /\ 10 * (face.bbox.y + face.bbox.height) <= 4128
    /\ face.isFacingCamera
    /\ face.confidence >= minDetectionConfidence
    /\ 1000 * (face.bbox.width * face.bbox.height) >= 8 * 288 * 3456
    /\ 1000 * (face.bbox.width * face.bbox.height) <= 80 * 288 * 3456
    /\ face.faceAngle.yaw <= maxYawAngle /\ -face.faceAngle.yaw <= maxYawAngle
    /\ face.faceAngle.pitch <= maxPitchAngle /\ -face.faceAngle.pitch <= maxPitchAngle

\* C9: the filter of either variant finds alignment on a frame if and only if
\* at least one face of the frame meets all five criteria, and it keeps
\* exactly the faces that meet them.
C9_AlignmentIffValidFace ==
    alignment.by # "none" =>
        /\ alignment.faceInTargetRegion
              <=> (\E i \in DOMAIN frame : FiveCriteria(frame[i]))
        /\ alignment.validFaces
              = Cardinality({ i \in DOMAIN frame : FiveCriteria(frame[i]) })

\* C9 witness: alignment found on a frame whose first face fails a criterion
\* and whose second face meets all five
C9_Witness ==
    /\ alignment.by = "interval"
    /\ alignment.faceInTargetRegion
    /\ Len(frame) = 2
    /\ ~FiveCriteria(frame[1])
    /\ FiveCriteria(frame[2])

\* C10: as long as every face of every frame has had a box partly outside
\* the target region, and no manual capture was requested, no capture has
\* fired and no image has been emitted.
C10_NoCaptureWhenPartlyOutside ==
    (~everInside /\ clicks = 0) => (attempts = 0 /\ emitted = 0)

\* C11 (as stated): a capture call returns no image and makes no
\* onImageCaptured call when the video has zero width or height, when its
\* readyState is below 2, when the scaled target region leaves the source
\* frame, and when the encoder yields empty data; in every other case it
\* returns an image.
C11_FailsExactlyInListedCases ==
    [][ (log'.op = "captureTargetRegion" /\ attempts' = attempts + 1)
          => LET region == log'.region
                 listed == \/ videoElement.videoWidth = 0
                           \/ videoElement.videoHeight = 0
                           \/ videoElement.readyState < 2
                           \/ region.x < 0
                           \/ region.y < 0
                           \/ region.x + region.width > 6400
                           \/ region.y + region.height > 4800
                           \/ videoElement.dataURL \in {"", "data:,"}
             IN  /\ listed <=> capturedImage'.dataURL = Null
                 /\ listed <=> emitted' = emitted ]_vars

\* C11 (amended): the capture call fails in the same way in the listed cases
\* and also when a 2D context of the detection canvas or of the crop canvas
\* cannot be obtained and when drawing or encoding throws; in every other case
\* it returns an image, which goes to onImageCaptured once.
C11_FailsInListedCasesOrWithoutCanvas ==
    [][ (log'.op = "captureTargetRegion" /\ attempts' = attempts + 1)
          => LET region == log'.region
                 listed == \/ videoElement.videoWidth = 0
                           \/ videoElement.videoHeight = 0
                           \/ videoElement.readyState < 2
                           \/ region.x < 0
                           \/ region.y < 0
                           \/ region.x + region.width > 6400
                           \/ region.y + region.height > 4800
                           \/ videoElement.dataURL \in {"", "data:,"}
                 noCanvas == \/ ~videoElement.detectionCtx
                             \/ ~videoElement.cropCtx
                             \/ videoElement.throws
             IN  IF listed \/ noCanvas
                 THEN /\ capturedImage'.dataURL = Null
                      /\ emitted' = emitted
                      /\ error' = "Failed to capture image"
                 ELSE /\ capturedImage'.dataURL = videoElement.dataURL
                      /\ emitted' = emitted + 1
                      /\ error' = error ]_vars

\* a capture of the target region from a playing video whose crop canvas gave
\* no 2D context has just failed
C11_Witness ==
    /\ variant = "manager"
    /\ log.op = "captureTargetRegion"
    /\ log.region = targetRegion
    /\ videoElement = [Playing EXCEPT !.cropCtx = FALSE]
    /\ capturedImage.dataURL = Null
    /\ emitted = 0
    /\ attempts = 1
    /\ error = "Failed to capture image"

\* C12: stopping the camera session clears every pending timer and resets
\* the gate state (stability timer, capturing guard) in the same step, and
\* after the stop no timer callback changes controller state, emits an image
\* or sets an error.
C12_StopClearsTimers ==
    [][ /\ (session = "active" /\ session' = "stopped")
            => /\ timers' = <<>>
               /\ ~isCapturing'
               /\ faceStableTimeRef' = NoTime
        /\ session = "stopped"
            => UNCHANGED <<isCapturing, error, emitted, attempts, faceStableTimeRef,
                           timers>> ]_vars

\* C13: the capturing guard is set at the decision to capture and every later
\* frame callback and timer callback sees it: from the decision until the
\* guard is released no callback reads it as unset and starts another
\* capture.
C13_GuardSeenByLaterCallbacks ==
    [][ isCapturing => attempts' = attempts ]_vars

\* The hook's two callbacks as functions of the controller state, so that the
\* state after "frame, then countdown tick" can be set beside the state after
\* "countdown tick, then frame".
HookState ==
    [stableTimeRef |-> stableTimeRef, faceStable |-> faceStable,
     faceDetected |-> faceDetected, countdown |-> countdown, timers |-> timers,
     isCapturing |-> isCapturing, emitted |-> emitted, attempts |-> attempts]

\* handleDetectionResults(results) run in controller state st
handleDetectionResults_on(st, results) ==
    IF managerRef = Null \/ HandlerIsCapturing_hook THEN st
    ELSE LET faceInRegion_ == \E i \in DOMAIN results :
                                 isInTargetRegion(results[i], targetRegion_hook)
             running == \E j \in DOMAIN st.timers : st.timers[j].kind = "countdown"
             fresh == CHOOSE k \in 1..(Len(st.timers) + 1) :
                         \A j \in DOMAIN st.timers : st.timers[j].id # k
          IN  IF faceInRegion_
              THEN IF ~Truthy(st.stableTimeRef)
                   THEN [st EXCEPT !.faceDetected = TRUE, !.stableTimeRef = At(now),
                                   !.faceStable = FALSE]
                   ELSE IF now - TimeOf(st.stableTimeRef) >= stabilityThreshold_hook
                             /\ ~HandlerFaceStable_hook
                        THEN IF running
                             THEN [st EXCEPT !.faceDetected = TRUE, !.faceStable = TRUE]
                             ELSE [st EXCEPT
                                     !.faceDetected = TRUE, !.faceStable = TRUE,
                                     !.countdown = At((captureDelay_hook + 999) \div 1000),
                                     !.timers = Append(@,
                                        [id |-> fresh, kind |-> "countdown",
                                         due |-> now + COUNTDOWN_MS,
                                         count |-> (captureDelay_hook + 999) \div 1000])]
                        ELSE [st EXCEPT !.faceDetected = TRUE]
              ELSE IF Truthy(st.stableTimeRef)
                   THEN [st EXCEPT !.faceDetected = FALSE, !.stableTimeRef = NoTime,
                                   !.faceStable = FALSE, !.countdown = NoTime,
                                   !.timers = Without(@, "countdown")]
                   ELSE [st EXCEPT !.faceDetected = FALSE]

\* the countdown interval callback with timer id `id` run in controller state
\* st; an interval that was cleared in the meantime does not call back
countdownTick_on(st, id) ==
    IF ~\E j \in DOMAIN st.timers : st.timers[j].id = id THEN st
    ELSE LET i == CHOOSE j \in DOMAIN st.timers : st.timers[j].id = id
             count == st.timers[i].count - 1
         IN  IF count > 0
             THEN [st EXCEPT !.countdown = At(count),
                             !.timers[i].due = @ + COUNTDOWN_MS,
                             !.timers[i].count = count]
             ELSE IF managerRef # Null /\ ~CountdownIsCapturing_hook
             THEN [st EXCEPT !.countdown = NoTime, !.isCapturing = TRUE,
                             !.attempts = @ + 1,
                             !.emitted = IF captureImage_mediapipe # Null
                                         THEN @ + 1 ELSE @,
                             !.timers = Append(Remove(@, i),
                                 [id |-> id, kind |-> "resetCapture",
                                  due |-> now + CAPTURE_RESET_DELAY, count |-> 0])]
             ELSE [st EXCEPT !.countdown = NoTime, !.timers = Remove(@, i)]

\* the two functions are the two actions: every frame step and every
\* countdown step of the hook takes HookState to the function's value
HookCallbacksAsFunctions ==
    [][ /\ (variant = "hook" /\ log'.op = "frame")
            => \E results \in SceneFrames :
                  HookState' = handleDetectionResults_on(HookState, results)
        /\ (variant = "hook" /\ log'.op = "countdown")
            => \E i \in DOMAIN timers :
                  /\ IsNextDue(i)
                  /\ HookState' = countdownTick_on(HookState, timers[i].id) ]_vars

\* the phase of the state machine a controller state of the hook is in
Phase_hook(st) ==
    IF st.isCapturing THEN "Capturing"
    ELSE IF \E j \in DOMAIN st.timers : st.timers[j].kind = "countdown" THEN "Countdown"
    ELSE IF Truthy(st.stableTimeRef) THEN "Tracking"
    ELSE "Idle"

\* C14: whenever a detection frame and a countdown interval callback are both
\* pending, running the frame callback first and running the interval
\* callback first lead to the same phase and the same number of emitted
\* captures.
C14_OrderIndependent ==
    (variant = "hook" /\ detector = "running" /\ now % FrameStep = 0)
      => \A results \in SceneFrames : \A i \in DOMAIN timers :
            (timers[i].kind = "countdown" /\ IsNextDue(i))
              => LET id == timers[i].id
                     frameFirst == countdownTick_on(
                                      handleDetectionResults_on(HookState, results), id)
                     tickFirst == handleDetectionResults_on(
                                      countdownTick_on(HookState, id), results)
                 IN  /\ Phase_hook(frameFirst) = Phase_hook(tickFirst)
                     /\ frameFirst.emitted = tickFirst.emitted

\* C15: while the controller is tracking and a frame continues an unbroken
\* run of aligned frames, the stable-since timestamp keeps the value recorded
\* on the first aligned frame of the run.
C15_StableSinceKept ==
    [][ ( /\ variant = "interval"
          /\ log'.op = "frame"
          /\ Truthy(faceStableTime)
          /\ Truthy(alignedSince)
          /\ Truthy(alignedSince') )
          => faceStableTime' = faceStableTime ]_vars

\* C16: with a stability threshold of 3000 ms and a cooldown of 5000 ms,
\* aligned frames 33 ms apart give exactly one capture within the first 100
\* frames, no further capture within the next 50 frames, and tracking
\* restarts from zero only once 5000 ms have passed since the capture: until
\* then no stability timer runs, so no second capture can come before
\* another 3000 ms after that.
C16_OneCaptureThenCooldown ==
    /\ now > 100 * ScenarioFrameStep => (attempts >= 1 /\ emitted >= 1)
    /\ now <= 150 * ScenarioFrameStep => (attempts <= 1 /\ emitted <= 1)
    /\ (attempts >= 1 /\ Truthy(faceStableTimeRef))
          => TimeOf(faceStableTimeRef) >= ScenarioFrameStep + 3000 + 5000
    /\ now < ScenarioFrameStep + 3000 + 5000 + 3000 => attempts <= 1

\* C17: the image a capture call produces holds pixels of the raw video
\* frame only, never a detection box or text drawn on a canvas, and the
\* capture call draws on no canvas that is displayed.
C17_CapturedPixelsAreRawVideo ==
    [][ (attempts' = attempts + 1 /\ log'.op \in {"captureTargetRegion", "captureImage"})
          => /\ capturedImage'.pixels \subseteq {"video"}
             /\ manager'.canvasElement = manager.canvasElement ]_vars

C19_NotReadyFrameSkipped ==
    [][ LET notReady == \/ videoElement.paused
                        \/ videoElement.readyState < 2
                        \/ videoElement.videoWidth = 0
                        \/ videoElement.videoHeight = 0
                        \/ ~videoElement.canvasCtx
                        \/ ~videoElement.detectionCtx
            starts == /\ log'.op = "detectFaces"
                      /\ manager.frameRequested
                      /\ manager.isDetecting
            throws == /\ log'.op = "detectFaces"
                      /\ log'.msg = "Detection error"
        IN  ((starts /\ (notReady \/ videoElement.throws)) \/ throws)
              => /\ delivered' = delivered
                 /\ frame' = frame
                 /\ UNCHANGED <<isCapturing, faceStableTimeRef, timers, emitted,
                                attempts, error, capturedImage>>
                 /\ ~manager'.awaiting
                 /\ manager.isDetecting => manager'.frameRequested ]_vars

\* a frame has just found the video paused and was skipped with the next
\* frame requested
C19_Witness ==
    /\ variant = "manager"
    /\ log = [op |-> "detectFaces", msg |-> "video not ready"]
    /\ videoElement = [Playing EXCEPT !.paused = TRUE]
    /\ manager.isDetecting
    /\ manager.frameRequested
    /\ delivered = 0
    /\ NoQueueMounted

\* C20: no capture failure is fatal.  A failed capture has set the
\* user-visible error string, and whenever the capturing guard is set, after
\* a failed capture as after any other, it is cleared again later, so the
\* controller does not stay in Capturing.
C20_GuardEventuallyCleared ==
    /\ [](log.msg = "error" => error # Null)
    /\ (log.msg = "error" /\ isCapturing) ~> ~isCapturing
    /\ isCapturing ~> ~isCapturing

\* an automatic capture has just failed in an active session: error string
\* set, guard still set, its reset pending
C20_Witness ==
    /\ variant = "ref"
    /\ session = "active"
    /\ log = [op |-> "performSingleCapture", msg |-> "error"]
    /\ error = "Failed to capture image"
    /\ isCapturing
    /\ emitted = 0
    /\ \E i \in DOMAIN timers : timers[i].kind = "resetCapturing"

\* the time the interval variant needs from the first aligned frame to the
\* capture: stabilityThreshold, at most one more period of the stability
\* check, then the countdown of captureDelay
AutoCaptureTime ==
    stabilityThreshold_interval + STABILITY_CHECK_MS + captureDelay_interval

C22_ClearKeepsProcessingItem ==
    /\ [][ handleClearQueue =>
             /\ \A i \in DOMAIN queue.items :
                   /\ queue.items[i].status \in {"pending", "error"}
                         => queue.items[i].id \notin IdsOf(queue'.items)
                   /\ queue.items[i].status = "processing"
                         => queue.items[i] \in { queue'.items[j] : j \in DOMAIN queue'.items }
             /\ queue'.currentProcessingId = queue.currentProcessingId
             /\ requests' = requests ]_vars
    /\ [][ \A id \in ItemsWith(queue.items, "processing") :
             processQueue_response(id, "ok") =>
                /\ completedResults' = <<id>> \o completedResults
                /\ id \notin IdsOf(queue'.items)
                /\ queue'.currentProcessingId = NoId ]_vars

\* a clear has just removed a pending and an error item and kept the item
\* whose request is in flight
C22_Witness ==
    /\ log.op = "clearQueue"
    /\ hasStatus(rendered.items, "pending")
    /\ hasStatus(rendered.items, "error")
    /\ Len(queue.items) = 1
    /\ queue.items[1].status = "processing"
    /\ queue.items[1].id \in requests
    /\ queue.currentProcessingId = queue.items[1].id

\* useQueue's clearQueue has the same effect on its queue
ClearQueueKeepsProcessing_useQueue ==
    /\ [][ clearQueue =>
             /\ queue'.items = keepProcessing(queue.items)
             /\ \A i \in DOMAIN queue.items :
                   queue.items[i].status \in {"pending", "error", "completed"}
                      => queue.items[i].id \notin IdsOf(queue'.items)
             /\ queue'.currentProcessingId = queue.currentProcessingId
             /\ requests' = requests ]_vars
    /\ [][ \A id \in ItemsWith(queue.items, "processing") :
             processNext_response(id, "ok") =>
                /\ id \in ItemsWith(queue'.items, "completed")
                /\ queue'.currentProcessingId = NoId ]_vars

\* C23: useQueue: addToQueue on a queue that holds maxQueueSize items (or
\* more) removes exactly one item, the oldest pending one, and appends the
\* new item; every other item stays, in its original order
C23_FullQueueEvictsOldestPending ==
    [][ (addToQueue /\ Len(queue.items) >= maxQueueSize) =>
           /\ Len(queue'.items) = Len(queue.items)
           /\ queue'.items = Append(withoutItem(queue.items, findPending(queue.items)),
                                    Item(created + 1, "pending")) ]_vars

\* C24: page-level queue: in every reachable state at most one item has
\* status processing, and currentProcessingId is non-null exactly when some
\* item has status processing, and is then the id of that item
C24_OneProcessingMatchesId ==
    /\ Cardinality({ i \in DOMAIN queue.items : queue.items[i].status = "processing" }) <= 1
    /\ (queue.currentProcessingId # NoId) <=> hasStatus(queue.items, "processing")
    /\ queue.currentProcessingId # NoId
          => queue.currentProcessingId \in ItemsWith(queue.items, "processing")

\* the number of times `id` occurs in a sequence of ids
Occurrences(seq, id) == Cardinality({ i \in DOMAIN seq : seq[i] = id })

\* C25: page-level queue: no image is sent to the process-image API twice;
\* a success response removes the item from the queue and leaves it exactly
\* once in the completed results; a failure response or a network error
\* leaves it in the queue with status error, and an item with status error
\* keeps that status as long as it is in the queue
C25_SentOnceThenCompletedOrError ==
    /\ [](\A id \in ItemIds : sent[id] <= 1)
    /\ [][ \A id \in ItemIds :
             processQueue_response(id, "ok") =>
                /\ id \notin IdsOf(queue'.items)
                /\ Occurrences(completedResults', id) = 1 ]_vars
    /\ [][ \A id \in ItemIds, outcome \in {"failed", "network"} :
             processQueue_response(id, outcome) =>
                id \in ItemsWith(queue'.items, "error") ]_vars
    /\ [][ \A id \in ItemsWith(queue.items, "error") :
             id \in IdsOf(queue'.items) => id \in ItemsWith(queue'.items, "error") ]_vars

\* C26: page-level queue, every request eventually returning or failing:
\* an item that is pending eventually is not pending any more (it is being
\* processed, completed, failed or cleared), whatever became of the items
\* before it
C26_PendingEventuallyLeaves ==
    \A id \in ItemIds :
        (id \in ItemsWith(queue.items, "pending"))
           ~> (id \notin ItemsWith(queue.items, "pending"))

\* an item has left pending while an item queued before it has status error
C26_Witness ==
    \E i, j \in DOMAIN queue.items :
        /\ i < j
        /\ queue.items[i].status = "error"
        /\ queue.items[j].status = "processing"
        /\ queue.items[j].id \in requests

\* C27: queued images are processed in the order they were added (ids are
\* given in that order): when a request for an item is sent, no item added
\* before it is pending
C27_ProcessedInOrderAdded ==
    [][ \A id \in ItemIds :
          sent'[id] > sent[id] =>
             /\ \A other \in ItemsWith(queue.items, "pending") : other >= id
             /\ \A other \in ItemsWith(queue'.items, "pending") : other > id ]_vars

\* the second item added has just been sent while a third one waits
C27_Witness ==
    /\ log = [op |-> "processQueue", msg |-> "sent"]
    /\ queue.currentProcessingId = 2
    /\ 2 \in requests
    /\ 3 \in ItemsWith(queue.items, "pending")
    /\ sent[1] = 1

\* C28: useQueue: the response of a request whose processing timeout has
\* already fired leaves the status of its item as it is, leaves
\* currentProcessingId alone while another item is being processed, and in
\* no state are two items processing or two requests in flight
C28_LateResponseChangesNothing ==
    /\ [][ \A id \in timedOut, outcome \in Outcomes :
             processNext_response(id, outcome) =>
                /\ \A i \in DOMAIN queue.items :
                      queue.items[i].id = id => queue'.items[i] = queue.items[i]
                /\ hasStatus(queue.items, "processing")
                      => queue'.currentProcessingId = queue.currentProcessingId ]_vars
    /\ [](Cardinality(ItemsWith(queue.items, "processing")) <= 1)
    /\ [](Cardinality(requests) <= 1)

\* C29: useQueue: the queue never holds more than maxQueueSize items
C29_QueueNeverExceedsMax ==
    Len(queue.items) <= maxQueueSize

\* the live intervals of one kind: the entries of the timer table that
\* setInterval created and no clearInterval has removed
LiveIntervals(kind) == { i \in DOMAIN timers : timers[i].kind = kind }

StabilityCheckRestartAttempted ==
    /\ variant = "interval"
    /\ log = [op |-> "frame", msg |-> "starting stability timer"]
    /\ \E i \in LiveIntervals("stabilityCheck") : timers[i].due < now + STABILITY_CHECK_MS

=============================================================================
